---- MODULE Spec2Model ----
(***************************************************************************)
(* A model of the chat bridge of libsignal                                 *)
(*   rust/bridge/shared/types/src/net/chat.rs  (Chat, ChatListener,        *)
(*       MaybeChatConnection, BridgeChatConnection, ServerMessageAck)      *)
(*   rust/bridge/shared/src/net/chat.rs        (the bridge functions)      *)
(*                                                                         *)
(* Three objects are modelled, each under its own specification:          *)
(*   Spec      a Chat<T>: the listener slot, the run-loop tasks spawned by *)
(*             set_listener and the stream of server events;               *)
(*   SpecConn  an (Un)AuthenticatedChatConnection: the MaybeChatConnection *)
(*             cell behind its tokio RwLock;                               *)
(*   SpecAck   one ServerMessageAck token and its redemption calls.        *)
(***************************************************************************)
EXTENDS Integers, Sequences, FiniteSets, TLC

\* ------------------------------------------------------------------ bounds
\* events the transport delivers in one behaviour
MaxEvents == 3
\* set_listener calls in one behaviour (one listener, one run-loop task each)
MaxListeners == 3
\* threads that call set_listener / clear_listener
NumCallers == 2
\* threads that call init_listener / send / disconnect / info
NumConnCallers == 2
\* calls each of those threads makes
MaxConnCalls == 2
\* ServerMessageAck_Send / ServerMessageAck_SendStatus calls on the token
NumRedeemers == 3
\* ConnectionManager_set_proxy calls on the manager
MaxProxyCalls == 2
\* connect attempts on the manager
MaxConnects == 2
\* tasks that send through Chat::service
NumSenders == 2
\* listeners set and events received while the service is exercised
ServiceListeners == 2
ServiceEvents == 2
ServiceCallers == 1
\* server events translated into callbacks
MaxServerEvents == 3
\* registration sessions
NumSessionIds == 4

\* ------------------------------------------------------- program constants
\* mpsc::channel(1): capacity of the channel behind the event stream
ChannelCapacity == 1
\* StatusCode::OK, the status ServerMessageAck_Send reports
StatusOK == 200

Tasks == 1..MaxListeners
Callers == 1..NumCallers
ConnCallers == 1..NumConnCallers
Redeemers == 1..NumRedeemers
\* the statuses a caller of ServerMessageAck_SendStatus passes
Statuses == {StatusOK, 400, 500}

VARIABLES
    \* ---- Chat<T> ----
    listener,       \* Chat::listener: the ChatListenerState in the mutex
    listenerLock,   \* holder of the std::sync::Mutex (0: free)
    cpc,            \* per caller: position in set_listener / clear_listener
    csaved,         \* per caller: the state std::mem::replace handed back
    cfut,           \* per caller: request_stream_future (0: ready(Ok(stream)), t: handle of task t)
    clistener,      \* per caller: the listener passed to set_listener
    nextListener,   \* listeners handed to set_listener so far
    pc,             \* per task: position in start_listening
    src,            \* per task: its request_stream_future
    cancelDropped,  \* per task: the oneshot::Sender of its cancel_rx was dropped
    cur,            \* per task: `next`, the event pulled from the stream
    log,            \* per listener: events whose callback was started, in order
    running,        \* callbacks executing on blocking threads: {<<listener, event>>}
    blocking,       \* per task: outcome of blocking_task ("none", "ok", "panic")
    stream,         \* events in the stream, not yet pulled
    arrived,        \* events the transport has pushed so far
    closed,         \* the stream has ended: next() yields None once it is drained
    dispatched,     \* all <<listener, event>> in the order the callbacks were started
    streamOwner,    \* who holds the BoxStream
    dispAtSet,      \* per listener: callbacks started on the replaced listener when it was set
    replaced,       \* per listener: the state tag its set_listener found
    panics,         \* listener callbacks that panicked so far
    arrivedAtSet,   \* per listener: events arrived when its set_listener returned (-1: not)
    arrivedAtClear, \* per listener: events arrived when clear_listener cancelled it (-1: not)
    \* ---- MaybeChatConnection behind the RwLock ----
    phase,          \* the MaybeChatConnection variant
    writer,         \* holder of the write lock (0: none)
    readers,        \* holders of a read lock
    kpc,            \* per connection caller: position in its call
    kop,            \* per connection caller: the call it is in
    kseen,          \* per connection caller: the variant it found under the lock
    kres,           \* per connection caller: outcome of its last call
    kcalls,         \* per connection caller: calls made so far
    transport,      \* calls forwarded to the ChatConnection so far
    finishConnects, \* ChatConnection::finish_connect calls so far
    installed,      \* listeners passed to finish_connect, in order
    disconnected,   \* the ChatConnection was disconnected
    disconnectReturned, \* a disconnect() call has returned
    kafter,         \* per connection caller: its last call began after a disconnect() returned
    \* ---- Chat::service ----
    sending,        \* senders whose ChatService send is awaiting its result
    serviceDisconnected, \* the chat service was disconnected
    stopped,        \* number of the Stopped event (0: none yet)
    \* ---- ChatListener::received_server_request ----
    inbox,          \* server events not yet handed to the listener
    handled,        \* server events handed to received_server_request, in order
    calls,          \* listener callbacks invoked, in order
    \* ---- registration requests and responses, key transparency ----
    chatRequest,    \* <<registration request, chat request it was converted to>>
    tried,          \* <<chat response, result of try_into_response>>
    registered,     \* <<register_account arguments, chat request built>>
    searched,       \* <<KeyTransparency_Search arguments, result, requests sent>>
    \* ---- ConnectionManager and connect ----
    transportConnector, \* the manager's connector: direct, through a proxy, or invalid
    setProxyLog,    \* the set_proxy calls so far: <<port, result>>
    nconnects,      \* connect attempts so far
    connPc,         \* the connect attempt: "idle" or "connecting"
    connPath,       \* what the last attempt went through: "service" or "connection"
    connSeen,       \* the connector the last attempt read
    connResult,     \* result of the last attempt
    nstarts,        \* calls of ChatConnection::start_connect_with
    nobjects,       \* connection objects returned by connect
    \* ---- ServerMessageAck ----
    ackCell,        \* AtomicTake: "full" or "empty"
    rpc,            \* per redeemer: position in ServerMessageAck_Send[Status]
    rop,            \* per redeemer: the bridge function it called
    rstatus,        \* per redeemer: the status it reports
    reports         \* statuses sent to the server for this token, in order

chatVars == <<listener, listenerLock, cpc, csaved, cfut, clistener, nextListener,
              pc, src, cancelDropped, cur, log, running, blocking, stream, arrived,
              closed, dispatched, streamOwner, dispAtSet, replaced, panics, arrivedAtSet, arrivedAtClear>>
connVars == <<phase, writer, readers, kpc, kop, kseen, kres, kcalls, transport,
              finishConnects, installed, disconnected, disconnectReturned, kafter>>
ackVars == <<ackCell, rpc, rop, rstatus, reports>>
proxyVars == <<transportConnector, setProxyLog, nconnects, connPc, connPath, connSeen,
               connResult, nstarts, nobjects>>
svcVars == <<sending, serviceDisconnected, stopped>>
evVars == <<inbox, handled, calls>>
callVars == <<chatRequest, tried, registered, searched>>
vars == <<chatVars, connVars, ackVars, proxyVars, svcVars, evVars, callVars>>

\* ------------------------------------------------------ ChatListenerState
Inactive == [tag |-> "Inactive", handle |-> 0]
Active(t) == [tag |-> "Active", handle |-> t]
Cancelled(t) == [tag |-> "Cancelled", handle |-> t]
CurrentlyBeingMutated == [tag |-> "CurrentlyBeingMutated", handle |-> 0]

\* 1..n as a sequence
Iota(a, n) == [i \in 1..n |-> a + i]

\* --------------------------------------------------------------- Chat::new
ChatNew ==
    /\ listener = Inactive
    /\ listenerLock = 0
    /\ cpc = [c \in Callers |-> "idle"]
    /\ csaved = [c \in Callers |-> Inactive]
    /\ cfut = [c \in Callers |-> 0]
    /\ clistener = [c \in Callers |-> 0]
    /\ nextListener = 0
    /\ pc = [t \in Tasks |-> "unspawned"]
    /\ src = [t \in Tasks |-> 0]
    /\ cancelDropped = [t \in Tasks |-> FALSE]
    /\ cur = [t \in Tasks |-> 0]
    /\ log = [t \in Tasks |-> <<>>]
    /\ running = {}
    /\ blocking = [t \in Tasks |-> "none"]
    /\ stream = <<>>
    /\ arrived = 0
    /\ closed = FALSE
    /\ dispatched = <<>>
    /\ streamOwner = <<"slot", 0>>
    /\ dispAtSet = [t \in Tasks |-> 0]
    /\ replaced = [t \in Tasks |-> "none"]
    /\ panics = 0
    /\ arrivedAtSet = [t \in Tasks |-> -1]
    /\ arrivedAtClear = [t \in Tasks |-> -1]


\* ------------------------------------------------------ Chat::set_listener
\* lines 104-122: create the cancel channel, lock the mutex, move the state out
\* (leaving CurrentlyBeingMutated) and derive request_stream_future from it;
\* an Active state has its cancel sender dropped here.
SetListenerBegin(c) ==
    /\ cpc[c] = "idle"
    /\ listenerLock = 0
    /\ nextListener < MaxListeners
    /\ LET l == nextListener + 1
           old == listener
       IN /\ nextListener' = l
          /\ clistener' = [clistener EXCEPT ![c] = l]
          /\ listenerLock' = c
          /\ csaved' = [csaved EXCEPT ![c] = old]
          /\ listener' = CurrentlyBeingMutated
          /\ replaced' = [replaced EXCEPT ![l] = old.tag]
          /\ CASE old.tag = "Inactive" ->
                    /\ cfut' = [cfut EXCEPT ![c] = 0]
                    /\ streamOwner' = <<"caller", c>>
                    /\ cpc' = [cpc EXCEPT ![c] = "set"]
                    /\ UNCHANGED <<cancelDropped, dispAtSet>>
               [] old.tag = "Active" ->
                    /\ cancelDropped' = [cancelDropped EXCEPT ![old.handle] = TRUE]
                    /\ cfut' = [cfut EXCEPT ![c] = old.handle]
                    /\ dispAtSet' = [dispAtSet EXCEPT ![l] = Len(log[old.handle])]
                    /\ cpc' = [cpc EXCEPT ![c] = "set"]
                    /\ UNCHANGED streamOwner
               [] old.tag = "Cancelled" ->
                    /\ cfut' = [cfut EXCEPT ![c] = old.handle]
                    /\ dispAtSet' = [dispAtSet EXCEPT ![l] = Len(log[old.handle])]
                    /\ cpc' = [cpc EXCEPT ![c] = "set"]
                    /\ UNCHANGED <<cancelDropped, streamOwner>>
               [] OTHER ->
                    \* unreachable!("this state should be ephemeral")
                    /\ cpc' = [cpc EXCEPT ![c] = "panicked"]
                    /\ UNCHANGED <<cfut, cancelDropped, dispAtSet, streamOwner>>
    /\ UNCHANGED <<pc, src, cur, log, running, blocking, stream, arrived, closed,
                   dispatched, panics, arrivedAtSet, arrivedAtClear>>
    /\ UNCHANGED <<connVars, ackVars, proxyVars, svcVars, evVars, callVars>>

\* lines 127-135: spawn start_listening(request_stream_future, cancel_rx) for the
\* new listener, store Active { handle, cancel } and release the mutex.
SetListenerFinishCore(c) ==
    /\ cpc[c] = "set"
    /\ listenerLock = c
    /\ LET t == clistener[c]
       IN /\ pc' = [pc EXCEPT ![t] = "awaitStream"]
          /\ src' = [src EXCEPT ![t] = cfut[c]]
          /\ streamOwner' = IF cfut[c] = 0 THEN <<"task", t>> ELSE streamOwner
          /\ listener' = Active(t)
    /\ listenerLock' = 0
    /\ cpc' = [cpc EXCEPT ![c] = "idle"]
    /\ csaved' = [csaved EXCEPT ![c] = Inactive]
    /\ cfut' = [cfut EXCEPT ![c] = 0]
    /\ clistener' = [clistener EXCEPT ![c] = 0]
    /\ UNCHANGED <<nextListener, cancelDropped, cur, log,
                   running, blocking, stream, arrived, closed, dispatched,
                   dispAtSet, replaced, panics, arrivedAtClear>>
    /\ UNCHANGED <<connVars, ackVars, proxyVars, svcVars, evVars, callVars>>

\* set_listener that joins the previous run-loop task before it returns.
SetListenerFinishJoins(c) ==
    /\ cfut[c] # 0 => pc[cfut[c]] = "done"
    /\ SetListenerFinishCore(c)
    /\ UNCHANGED arrivedAtSet

\* set_listener's second step; the arrival counts are left alone
SetListenerFinish(c) ==
    /\ SetListenerFinishCore(c)
    /\ UNCHANGED arrivedAtSet

\* the same step, keeping the number of events that had arrived when it returned
SetListenerFinishRec(c) ==
    /\ SetListenerFinishCore(c)
    /\ arrivedAtSet' = [arrivedAtSet EXCEPT ![clistener[c]] = arrived]

\* ---------------------------------------------------- Chat::clear_listener
\* line 139 and cancel() line 45: lock the mutex and move the state out.
ClearListenerBegin(c) ==
    /\ cpc[c] = "idle"
    /\ listenerLock = 0
    /\ listenerLock' = c
    /\ csaved' = [csaved EXCEPT ![c] = listener]
    /\ listener' = CurrentlyBeingMutated
    /\ cpc' = [cpc EXCEPT ![c] = "clear"]
    /\ UNCHANGED <<cfut, clistener, nextListener, pc, src, cancelDropped, cur, log,
                   running, blocking, stream, arrived, closed, dispatched,
                   streamOwner, dispAtSet, replaced, panics, arrivedAtSet, arrivedAtClear>>
    /\ UNCHANGED <<connVars, ackVars, proxyVars, svcVars, evVars, callVars>>

\* ChatListenerState::cancel lines 46-58: Active becomes Cancelled and the cancel
\* sender is dropped; Inactive and Cancelled are put back; then the guard drops.
ClearListenerFinishCore(c) ==
    /\ cpc[c] = "clear"
    /\ listenerLock = c
    /\ LET old == csaved[c]
       IN CASE old.tag = "Active" ->
                    /\ listener' = Cancelled(old.handle)
                    /\ cancelDropped' = [cancelDropped EXCEPT ![old.handle] = TRUE]
                    /\ listenerLock' = 0
                    /\ cpc' = [cpc EXCEPT ![c] = "idle"]
            [] old.tag \in {"Inactive", "Cancelled"} ->
                    /\ listener' = old
                    /\ listenerLock' = 0
                    /\ cpc' = [cpc EXCEPT ![c] = "idle"]
                    /\ UNCHANGED cancelDropped
            [] OTHER ->
                    \* unreachable!("this state should be ephemeral")
                    /\ cpc' = [cpc EXCEPT ![c] = "panicked"]
                    /\ listenerLock' = 0
                    /\ UNCHANGED <<listener, cancelDropped>>
    /\ csaved' = [csaved EXCEPT ![c] = Inactive]
    /\ UNCHANGED <<cfut, clistener, nextListener, pc, src, cur, log, running,
                   blocking, stream, arrived, closed, dispatched, streamOwner,
                   dispAtSet, replaced, panics, arrivedAtSet>>
    /\ UNCHANGED <<connVars, ackVars, proxyVars, svcVars, evVars, callVars>>

\* cancel() that puts nothing back for Inactive and Cancelled.
ClearListenerFinishNoRestore(c) ==
    /\ cpc[c] = "clear"
    /\ listenerLock = c
    /\ LET old == csaved[c]
       IN IF old.tag = "Active"
             THEN /\ listener' = Cancelled(old.handle)
                  /\ cancelDropped' = [cancelDropped EXCEPT ![old.handle] = TRUE]
             ELSE UNCHANGED <<listener, cancelDropped>>
    /\ listenerLock' = 0
    /\ cpc' = [cpc EXCEPT ![c] = "idle"]
    /\ csaved' = [csaved EXCEPT ![c] = Inactive]
    /\ UNCHANGED <<cfut, clistener, nextListener, pc, src, cur, log, running,
                   blocking, stream, arrived, closed, dispatched, streamOwner,
                   dispAtSet, replaced, panics, arrivedAtSet, arrivedAtClear>>
    /\ UNCHANGED <<connVars, ackVars, proxyVars, svcVars, evVars, callVars>>

\* cancel() that marks an Active listener Cancelled but keeps its cancel sender.
ClearListenerFinishKeepsSender(c) ==
    /\ cpc[c] = "clear"
    /\ listenerLock = c
    /\ listener' = IF csaved[c].tag = "Active" THEN Cancelled(csaved[c].handle)
                                               ELSE csaved[c]
    /\ listenerLock' = 0
    /\ cpc' = [cpc EXCEPT ![c] = "idle"]
    /\ csaved' = [csaved EXCEPT ![c] = Inactive]
    /\ UNCHANGED <<cfut, clistener, nextListener, pc, src, cancelDropped, cur, log,
                   running, blocking, stream, arrived, closed, dispatched, streamOwner,
                   dispAtSet, replaced, panics, arrivedAtSet, arrivedAtClear>>
    /\ UNCHANGED <<connVars, ackVars, proxyVars, svcVars, evVars, callVars>>

\* clear_listener that also disconnects the chat service.
ClearListenerFinishDisconnects(c) ==
    /\ cpc[c] = "clear"
    /\ listenerLock = c
    /\ listener' = IF csaved[c].tag = "Active" THEN Cancelled(csaved[c].handle)
                                               ELSE csaved[c]
    /\ cancelDropped' = IF csaved[c].tag = "Active"
                            THEN [cancelDropped EXCEPT ![csaved[c].handle] = TRUE]
                            ELSE cancelDropped
    /\ listenerLock' = 0
    /\ cpc' = [cpc EXCEPT ![c] = "idle"]
    /\ csaved' = [csaved EXCEPT ![c] = Inactive]
    /\ serviceDisconnected' = TRUE
    /\ UNCHANGED <<sending, stopped>>
    /\ UNCHANGED <<cfut, clistener, nextListener, pc, src, cur, log,
                   running, blocking, stream, arrived, closed, dispatched, streamOwner,
                   dispAtSet, replaced, panics, arrivedAtSet, arrivedAtClear>>
    /\ UNCHANGED <<connVars, ackVars, proxyVars, evVars, callVars>>

\* clear_listener's second step; the arrival counts are left alone
ClearListenerFinish(c) ==
    /\ ClearListenerFinishCore(c)
    /\ UNCHANGED arrivedAtClear

\* the same step, keeping the number of events that had arrived when it
\* cancelled an Active listener
ClearListenerFinishRec(c) ==
    /\ ClearListenerFinishCore(c)
    /\ arrivedAtClear' = IF csaved[c].tag = "Active"
                            THEN [arrivedAtClear EXCEPT ![csaved[c].handle] = arrived]
                            ELSE arrivedAtClear

\* callbacks of listener t that are executing
CallbacksOf(t, r) == {x \in r : x[1] = t}

\* AwaitStream without the join: the new run-loop takes the stream while the
\* previous task may still be using it.
AwaitStreamNoJoin(t) ==
    /\ pc[t] = "awaitStream"
    /\ pc' = [pc EXCEPT ![t] = "select"]
    /\ streamOwner' = <<"task", t>>
    /\ UNCHANGED <<listener, listenerLock, cpc, csaved, cfut, clistener, nextListener,
                   src, cancelDropped, cur, log, running, blocking, stream, arrived,
                   closed, dispatched, dispAtSet, replaced, panics, arrivedAtSet, arrivedAtClear>>
    /\ UNCHANGED <<connVars, ackVars, proxyVars, svcVars, evVars, callVars>>

\* ------------------------------------------- ChatListener::start_listening
\* lines 566-568: await request_stream_future. A ready stream is taken at once;
\* a JoinHandle yields the stream when the previous task has returned it.
AwaitStream(t) ==
    /\ pc[t] = "awaitStream"
    /\ \/ src[t] = 0
       \/ src[t] # 0 /\ pc[src[t]] = "done"
    /\ pc' = [pc EXCEPT ![t] = "select"]
    /\ streamOwner' = <<"task", t>>
    /\ UNCHANGED <<listener, listenerLock, cpc, csaved, cfut, clistener, nextListener,
                   src, cancelDropped, cur, log, running, blocking, stream, arrived,
                   closed, dispatched, dispAtSet, replaced, panics, arrivedAtSet, arrivedAtClear>>
    /\ UNCHANGED <<connVars, ackVars, proxyVars, svcVars, evVars, callVars>>

\* a select that prefers an available item to the cancellation.
PollCancelStreamFirst(t) ==
    /\ pc[t] = "select"
    /\ IF cancelDropped[t] /\ stream = <<>>
          THEN /\ pc' = [pc EXCEPT ![t] = "done"]
               /\ streamOwner' = <<"result", t>>
          ELSE /\ pc' = [pc EXCEPT ![t] = "pollStream"]
               /\ UNCHANGED streamOwner
    /\ UNCHANGED <<listener, listenerLock, cpc, csaved, cfut, clistener, nextListener,
                   src, cancelDropped, cur, log, running, blocking, stream, arrived,
                   closed, dispatched, dispAtSet, replaced, panics, arrivedAtSet, arrivedAtClear>>
    /\ UNCHANGED <<connVars, ackVars, proxyVars, svcVars, evVars, callVars>>

\* lines 572-574: select! { biased; _ = &mut cancel_rx => None, ... }: the
\* cancellation branch is polled first; a dropped sender ends the loop and the
\* task returns the stream (line 604).
PollCancel(t) ==
    /\ pc[t] = "select"
    /\ IF cancelDropped[t]
          THEN /\ pc' = [pc EXCEPT ![t] = "done"]
               /\ streamOwner' = <<"result", t>>
          ELSE /\ pc' = [pc EXCEPT ![t] = "pollStream"]
               /\ UNCHANGED streamOwner
    /\ UNCHANGED <<listener, listenerLock, cpc, csaved, cfut, clistener, nextListener,
                   src, cancelDropped, cur, log, running, blocking, stream, arrived,
                   closed, dispatched, dispAtSet, replaced, panics, arrivedAtSet, arrivedAtClear>>
    /\ UNCHANGED <<connVars, ackVars, proxyVars, svcVars, evVars, callVars>>

\* PollStream that reads the head of the stream without removing it.
PollStreamPeek(t) ==
    /\ pc[t] = "pollStream"
    /\ IF stream # <<>>
          THEN /\ cur' = [cur EXCEPT ![t] = Head(stream)]
               /\ pc' = [pc EXCEPT ![t] = "pulled"]
               /\ UNCHANGED <<stream, streamOwner>>
          ELSE IF closed
          THEN /\ pc' = [pc EXCEPT ![t] = "done"]
               /\ streamOwner' = <<"result", t>>
               /\ UNCHANGED <<cur, stream>>
          ELSE /\ pc' = [pc EXCEPT ![t] = "select"]
               /\ UNCHANGED <<cur, stream, streamOwner>>
    /\ UNCHANGED <<listener, listenerLock, cpc, csaved, cfut, clistener, nextListener,
                   src, cancelDropped, log, running, blocking, arrived, closed,
                   dispatched, dispAtSet, replaced, panics, arrivedAtSet, arrivedAtClear>>
    /\ UNCHANGED <<connVars, ackVars, proxyVars, svcVars, evVars, callVars>>

\* PollStream that drops the stream when it finds it ended.
PollStreamDropsStream(t) ==
    /\ pc[t] = "pollStream"
    /\ IF stream # <<>>
          THEN /\ cur' = [cur EXCEPT ![t] = Head(stream)]
               /\ stream' = Tail(stream)
               /\ pc' = [pc EXCEPT ![t] = "pulled"]
               /\ UNCHANGED streamOwner
          ELSE IF closed
          THEN /\ pc' = [pc EXCEPT ![t] = "done"]
               /\ streamOwner' = <<"lost", 0>>
               /\ UNCHANGED <<cur, stream>>
          ELSE /\ pc' = [pc EXCEPT ![t] = "select"]
               /\ UNCHANGED <<cur, stream, streamOwner>>
    /\ UNCHANGED <<listener, listenerLock, cpc, csaved, cfut, clistener, nextListener,
                   src, cancelDropped, log, running, blocking, arrived, closed,
                   dispatched, dispAtSet, replaced, panics, arrivedAtSet, arrivedAtClear>>
    /\ UNCHANGED <<connVars, ackVars, proxyVars, svcVars, evVars, callVars>>

\* lines 575-579: next = request_stream.next(): an available item is pulled, an
\* ended stream yields None (break, return the stream), otherwise the select is
\* pending and is polled again from its first branch when the task is woken.
PollStream(t) ==
    /\ pc[t] = "pollStream"
    /\ IF stream # <<>>
          THEN /\ cur' = [cur EXCEPT ![t] = Head(stream)]
               /\ stream' = Tail(stream)
               /\ pc' = [pc EXCEPT ![t] = "pulled"]
               /\ UNCHANGED streamOwner
          ELSE IF closed
          THEN /\ pc' = [pc EXCEPT ![t] = "done"]
               /\ streamOwner' = <<"result", t>>
               /\ UNCHANGED <<cur, stream>>
          ELSE /\ pc' = [pc EXCEPT ![t] = "select"]
               /\ UNCHANGED <<cur, stream, streamOwner>>
    /\ UNCHANGED <<listener, listenerLock, cpc, csaved, cfut, clistener, nextListener,
                   src, cancelDropped, log, running, blocking, arrived, closed,
                   dispatched, dispAtSet, replaced, panics, arrivedAtSet, arrivedAtClear>>
    /\ UNCHANGED <<connVars, ackVars, proxyVars, svcVars, evVars, callVars>>

\* StartDispatch that does not await the blocking task before looping.
StartDispatchNoAwait(t) ==
    /\ pc[t] = "pulled"
    /\ running' = running \cup {<<t, cur[t]>>}
    /\ log' = [log EXCEPT ![t] = Append(@, cur[t])]
    /\ dispatched' = Append(dispatched, <<t, cur[t]>>)
    /\ blocking' = [blocking EXCEPT ![t] = "none"]
    /\ pc' = [pc EXCEPT ![t] = "select"]
    /\ UNCHANGED <<listener, listenerLock, cpc, csaved, cfut, clistener, nextListener,
                   src, cancelDropped, cur, stream, arrived, closed, streamOwner,
                   dispAtSet, replaced, panics, arrivedAtSet, arrivedAtClear>>
    /\ UNCHANGED <<connVars, ackVars, proxyVars, svcVars, evVars, callVars>>

\* lines 586-591: move the listener into a blocking task that calls
\* received_server_request(next), and await that task.
StartDispatch(t) ==
    /\ pc[t] = "pulled"
    /\ running' = running \cup {<<t, cur[t]>>}
    /\ log' = [log EXCEPT ![t] = Append(@, cur[t])]
    /\ dispatched' = Append(dispatched, <<t, cur[t]>>)
    /\ blocking' = [blocking EXCEPT ![t] = "none"]
    /\ pc' = [pc EXCEPT ![t] = "dispatching"]
    /\ UNCHANGED <<listener, listenerLock, cpc, csaved, cfut, clistener, nextListener,
                   src, cancelDropped, cur, stream, arrived, closed, streamOwner,
                   dispAtSet, replaced, panics, arrivedAtSet, arrivedAtClear>>
    /\ UNCHANGED <<connVars, ackVars, proxyVars, svcVars, evVars, callVars>>

\* lines 587-590: the callback running on the blocking thread returns the
\* listener, or panics.
CallbackReturn(t, e) ==
    /\ <<t, e>> \in running
    /\ running' = running \ {<<t, e>>}
    /\ blocking' = [blocking EXCEPT ![t] = "ok"]
    /\ UNCHANGED <<listener, listenerLock, cpc, csaved, cfut, clistener, nextListener,
                   pc, src, cancelDropped, cur, log, stream, arrived, closed,
                   dispatched, streamOwner, dispAtSet, replaced, panics, arrivedAtSet, arrivedAtClear>>
    /\ UNCHANGED <<connVars, ackVars, proxyVars, svcVars, evVars, callVars>>

CallbackPanic(t, e) ==
    /\ <<t, e>> \in running
    /\ running' = running \ {<<t, e>>}
    /\ blocking' = [blocking EXCEPT ![t] = "panic"]
    /\ panics' = panics + 1
    /\ UNCHANGED <<listener, listenerLock, cpc, csaved, cfut, clistener, nextListener,
                   pc, src, cancelDropped, cur, log, stream, arrived, closed,
                   dispatched, streamOwner, dispAtSet, replaced, arrivedAtSet, arrivedAtClear>>
    /\ UNCHANGED <<connVars, ackVars, proxyVars, svcVars, evVars, callVars>>

\* the join that gives up on a callback still running once the listener is cancelled.
DispatchJoinedAbortsOnCancel(t) ==
    /\ pc[t] = "dispatching"
    /\ blocking[t] # "none" \/ cancelDropped[t]
    /\ IF blocking[t] = "ok"
          THEN /\ pc' = [pc EXCEPT ![t] = "select"]
               /\ UNCHANGED streamOwner
          ELSE /\ pc' = [pc EXCEPT ![t] = "done"]
               /\ streamOwner' = <<"result", t>>
    /\ blocking' = [blocking EXCEPT ![t] = "none"]
    /\ running' = running \ CallbacksOf(t, running)
    /\ UNCHANGED <<listener, listenerLock, cpc, csaved, cfut, clistener, nextListener,
                   src, cancelDropped, cur, log, stream, arrived, closed,
                   dispatched, dispAtSet, replaced, panics, arrivedAtSet, arrivedAtClear>>
    /\ UNCHANGED <<connVars, ackVars, proxyVars, svcVars, evVars, callVars>>

\* the join that continues the loop whatever the blocking task's result.
DispatchJoinedIgnoresPanic(t) ==
    /\ pc[t] = "dispatching"
    /\ blocking[t] # "none"
    /\ pc' = [pc EXCEPT ![t] = "select"]
    /\ UNCHANGED streamOwner
    /\ blocking' = [blocking EXCEPT ![t] = "none"]
    /\ UNCHANGED <<listener, listenerLock, cpc, csaved, cfut, clistener, nextListener,
                   src, cancelDropped, cur, log, running, stream, arrived, closed,
                   dispatched, dispAtSet, replaced, panics, arrivedAtSet, arrivedAtClear>>
    /\ UNCHANGED <<connVars, ackVars, proxyVars, svcVars, evVars, callVars>>

\* lines 591-600: blocking_task.await: Ok(listener) continues the loop; Err logs
\* "chat listener panicked" and breaks, and the task returns the stream.
DispatchJoined(t) ==
    /\ pc[t] = "dispatching"
    /\ blocking[t] # "none"
    /\ IF blocking[t] = "ok"
          THEN /\ pc' = [pc EXCEPT ![t] = "select"]
               /\ UNCHANGED streamOwner
          ELSE /\ pc' = [pc EXCEPT ![t] = "done"]
               /\ streamOwner' = <<"result", t>>
    /\ blocking' = [blocking EXCEPT ![t] = "none"]
    /\ UNCHANGED <<listener, listenerLock, cpc, csaved, cfut, clistener, nextListener,
                   src, cancelDropped, cur, log, running, stream, arrived, closed,
                   dispatched, dispAtSet, replaced, panics, arrivedAtSet, arrivedAtClear>>
    /\ UNCHANGED <<connVars, ackVars, proxyVars, svcVars, evVars, callVars>>

\* ------------------------------------------------------- the event source
\* The transport pushes the next server event into the channel behind the
\* stream (Chat::new line 92, mpsc::channel(1) line 149); events are numbered
\* in arrival order.
EventArrives ==
    /\ ~closed
    /\ arrived < MaxEvents
    /\ Len(stream) < ChannelCapacity
    /\ arrived' = arrived + 1
    /\ stream' = Append(stream, arrived + 1)
    /\ UNCHANGED <<listener, listenerLock, cpc, csaved, cfut, clistener, nextListener,
                   pc, src, cancelDropped, cur, log, running, blocking, closed,
                   dispatched, streamOwner, dispAtSet, replaced, panics, arrivedAtSet, arrivedAtClear>>
    /\ UNCHANGED <<connVars, ackVars, proxyVars, svcVars, evVars, callVars>>

\* The stream ends: once drained, next() yields None.
StreamEnds ==
    /\ ~closed
    /\ closed' = TRUE
    /\ UNCHANGED <<listener, listenerLock, cpc, csaved, cfut, clistener, nextListener,
                   pc, src, cancelDropped, cur, log, running, blocking, stream,
                   arrived, dispatched, streamOwner, dispAtSet, replaced, panics, arrivedAtSet, arrivedAtClear>>
    /\ UNCHANGED <<connVars, ackVars, proxyVars, svcVars, evVars, callVars>>

\* ---------------------------------------------- abnormal task termination
\* The run-loop task is torn down at its select (the poll of the stream panics,
\* or the runtime drops the task): its JoinHandle yields a JoinError and the
\* stream it owned is dropped with it, buffered events included.
TaskAborts(t) ==
    /\ pc[t] \in {"select", "pollStream"}
    /\ pc' = [pc EXCEPT ![t] = "aborted"]
    /\ streamOwner' = <<"lost", 0>>
    /\ stream' = <<>>
    /\ closed' = TRUE
    /\ UNCHANGED <<listener, listenerLock, cpc, csaved, cfut, clistener, nextListener,
                   src, cancelDropped, cur, log, running, blocking, arrived,
                   dispatched, dispAtSet, replaced, panics, arrivedAtSet, arrivedAtClear>>
    /\ UNCHANGED <<connVars, ackVars, proxyVars, svcVars, evVars, callVars>>

\* a run-loop that carries on with an empty stream when the previous task's
\* JoinHandle yields an error.
AwaitStreamFailsRecovers(t) ==
    /\ pc[t] = "awaitStream"
    /\ src[t] # 0
    /\ pc[src[t]] = "aborted"
    /\ pc' = [pc EXCEPT ![t] = "select"]
    /\ streamOwner' = <<"task", t>>
    /\ UNCHANGED <<listener, listenerLock, cpc, csaved, cfut, clistener, nextListener,
                   src, cancelDropped, cur, log, running, blocking, stream, arrived,
                   closed, dispatched, dispAtSet, replaced, panics, arrivedAtSet, arrivedAtClear>>
    /\ UNCHANGED <<connVars, ackVars, proxyVars, svcVars, evVars, callVars>>

\* lines 566-568: request_stream_future.await yields Err(JoinError) and
\* unwrap_or_else(|e| panic::resume_unwind(e.into_panic())) ends this task
\* abnormally as well, before its loop starts.
AwaitStreamFails(t) ==
    /\ pc[t] = "awaitStream"
    /\ src[t] # 0
    /\ pc[src[t]] = "aborted"
    /\ pc' = [pc EXCEPT ![t] = "aborted"]
    /\ UNCHANGED <<listener, listenerLock, cpc, csaved, cfut, clistener, nextListener,
                   src, cancelDropped, cur, log, running, blocking, stream, arrived,
                   closed, dispatched, streamOwner, dispAtSet, replaced, panics,
                   arrivedAtSet, arrivedAtClear>>
    /\ UNCHANGED <<connVars, ackVars, proxyVars, svcVars, evVars, callVars>>

ChatNext ==
    \/ \E c \in Callers : SetListenerBegin(c)
    \/ \E c \in Callers : SetListenerFinish(c)
    \/ \E c \in Callers : ClearListenerBegin(c)
    \/ \E c \in Callers : ClearListenerFinish(c)
    \/ \E t \in Tasks : AwaitStream(t)
    \/ \E t \in Tasks : PollCancel(t)
    \/ \E t \in Tasks : PollStream(t)
    \/ \E t \in Tasks : StartDispatch(t)
    \/ \E t \in Tasks, e \in 1..MaxEvents : CallbackReturn(t, e)
    \/ \E t \in Tasks, e \in 1..MaxEvents : CallbackPanic(t, e)
    \/ \E t \in Tasks : DispatchJoined(t)
    \/ EventArrives
    \/ StreamEnds

\* ChatNext with the steps that keep the arrival counts
ChatNextRec ==
    \/ \E c \in Callers : SetListenerBegin(c)
    \/ \E c \in Callers : SetListenerFinishRec(c)
    \/ \E c \in Callers : ClearListenerBegin(c)
    \/ \E c \in Callers : ClearListenerFinishRec(c)
    \/ \E t \in Tasks : AwaitStream(t)
    \/ \E t \in Tasks : PollCancel(t)
    \/ \E t \in Tasks : PollStream(t)
    \/ \E t \in Tasks : StartDispatch(t)
    \/ \E t \in Tasks, e \in 1..MaxEvents : CallbackReturn(t, e)
    \/ \E t \in Tasks, e \in 1..MaxEvents : CallbackPanic(t, e)
    \/ \E t \in Tasks : DispatchJoined(t)
    \/ EventArrives
    \/ StreamEnds



\* =================================================== MaybeChatConnection
\* (Un)AuthenticatedChatConnection::connect lines 253-287: a connected
\* instance starts as WaitingForListener behind an unlocked RwLock.
ConnectionNew ==
    /\ phase = "WaitingForListener"
    /\ writer = 0
    /\ readers = {}
    /\ kpc = [k \in ConnCallers |-> "idle"]
    /\ kop = [k \in ConnCallers |-> "none"]
    /\ kseen = [k \in ConnCallers |-> "none"]
    /\ kres = [k \in ConnCallers |-> "none"]
    /\ kcalls = [k \in ConnCallers |-> 0]
    /\ transport = 0
    /\ finishConnects = 0
    /\ installed = <<>>
    /\ disconnected = FALSE
    /\ disconnectReturned = FALSE
    /\ kafter = [k \in ConnCallers |-> FALSE]

\* callers queued in blocking_write: tokio's RwLock is fair, so a queued writer
\* is served before any reader that asks after it
WritersWaiting == {k \in ConnCallers : kpc[k] = "initWait"}

\* BridgeChatConnection::init_listener line 318: blocking_write() queues for the
\* write lock.
InitListenerRequest(k) ==
    /\ kpc[k] = "idle"
    /\ kcalls[k] < MaxConnCalls
    /\ kop' = [kop EXCEPT ![k] = "init_listener"]
    /\ kpc' = [kpc EXCEPT ![k] = "initWait"]
    /\ kcalls' = [kcalls EXCEPT ![k] = @ + 1]
    /\ kres' = [kres EXCEPT ![k] = "none"]
    /\ UNCHANGED <<phase, writer, readers, kseen, transport, finishConnects, installed,
                   disconnected, disconnectReturned, kafter>>
    /\ UNCHANGED <<chatVars, ackVars, proxyVars, svcVars, evVars, callVars>>

\* line 318 and init_listener lines 354-355: the write lock is granted when no
\* guard is out; the connection is moved out, leaving TemporarilyEvicted.
InitListenerBegin(k) ==
    /\ kpc[k] = "initWait"
    /\ writer = 0
    /\ readers = {}
    /\ writer' = k
    /\ kseen' = [kseen EXCEPT ![k] = phase]
    /\ phase' = "TemporarilyEvicted"
    /\ kpc' = [kpc EXCEPT ![k] = "init"]
    /\ UNCHANGED <<readers, kop, kcalls, kres, transport, finishConnects, installed,
                   disconnected, disconnectReturned, kafter>>
    /\ UNCHANGED <<chatVars, ackVars, proxyVars, svcVars, evVars, callVars>>

\* init_listener that finishes the connection again when it is already Running.
InitListenerFinishReinstall(k) ==
    /\ kpc[k] = "init"
    /\ writer = k
    /\ phase' = "Running"
    /\ finishConnects' = finishConnects + 1
    /\ installed' = Append(installed, <<k, kcalls[k]>>)
    /\ kres' = [kres EXCEPT ![k] = "ok"]
    /\ writer' = 0
    /\ kpc' = [kpc EXCEPT ![k] = "idle"]
    /\ UNCHANGED <<readers, kop, kseen, kcalls, transport, disconnected, disconnectReturned, kafter>>
    /\ UNCHANGED <<chatVars, ackVars, proxyVars, svcVars, evVars, callVars>>

\* init_listener that does not store the Running connection it built.
InitListenerFinishNoStore(k) ==
    /\ kpc[k] = "init"
    /\ writer = k
    /\ CASE kseen[k] = "Running" ->
                /\ phase' = "Running"
                /\ kres' = [kres EXCEPT ![k] = "panic: listener already set"]
                /\ UNCHANGED <<finishConnects, installed>>
         [] kseen[k] = "WaitingForListener" ->
                /\ finishConnects' = finishConnects + 1
                /\ installed' = Append(installed, <<k, kcalls[k]>>)
                /\ kres' = [kres EXCEPT ![k] = "ok"]
                /\ UNCHANGED phase
         [] OTHER ->
                /\ kres' = [kres EXCEPT ![k] = "panic: should be a temporary state"]
                /\ UNCHANGED <<phase, finishConnects, installed>>
    /\ writer' = 0
    /\ kpc' = [kpc EXCEPT ![k] = "idle"]
    /\ UNCHANGED <<readers, kop, kseen, kcalls, transport, disconnected, disconnectReturned, kafter>>
    /\ UNCHANGED <<chatVars, ackVars, proxyVars, svcVars, evVars, callVars>>

\* init_listener that panics on Running without putting the connection back.
InitListenerFinishNoRestore(k) ==
    /\ kpc[k] = "init"
    /\ writer = k
    /\ CASE kseen[k] = "Running" ->
                /\ kres' = [kres EXCEPT ![k] = "panic: listener already set"]
                /\ UNCHANGED <<phase, finishConnects, installed>>
         [] kseen[k] = "WaitingForListener" ->
                /\ phase' = "Running"
                /\ finishConnects' = finishConnects + 1
                /\ installed' = Append(installed, <<k, kcalls[k]>>)
                /\ kres' = [kres EXCEPT ![k] = "ok"]
         [] OTHER ->
                /\ kres' = [kres EXCEPT ![k] = "panic: should be a temporary state"]
                /\ UNCHANGED <<phase, finishConnects, installed>>
    /\ writer' = 0
    /\ kpc' = [kpc EXCEPT ![k] = "idle"]
    /\ UNCHANGED <<readers, kop, kseen, kcalls, transport, disconnected, disconnectReturned, kafter>>
    /\ UNCHANGED <<chatVars, ackVars, proxyVars, svcVars, evVars, callVars>>

\* init_listener lines 355-370: Running is put back and the call panics with
\* "listener already set"; WaitingForListener is finished with the listener and
\* stored as Running; the write guard is dropped either way.
InitListenerFinish(k) ==
    /\ kpc[k] = "init"
    /\ writer = k
    /\ CASE kseen[k] = "Running" ->
                /\ phase' = "Running"
                /\ kres' = [kres EXCEPT ![k] = "panic: listener already set"]
                /\ UNCHANGED <<finishConnects, installed>>
         [] kseen[k] = "WaitingForListener" ->
                /\ phase' = "Running"
                /\ finishConnects' = finishConnects + 1
                /\ installed' = Append(installed, <<k, kcalls[k]>>)
                /\ kres' = [kres EXCEPT ![k] = "ok"]
         [] OTHER ->
                /\ kres' = [kres EXCEPT ![k] = "panic: should be a temporary state"]
                /\ UNCHANGED <<phase, finishConnects, installed>>
    /\ writer' = 0
    /\ kpc' = [kpc EXCEPT ![k] = "idle"]
    /\ UNCHANGED <<readers, kop, kseen, kcalls, transport, disconnected, disconnectReturned, kafter>>
    /\ UNCHANGED <<chatVars, ackVars, proxyVars, svcVars, evVars, callVars>>

\* send / disconnect that forward without looking at the variant.
ForwardBeginNoCheck(k, op) ==
    /\ kpc[k] = "idle"
    /\ kcalls[k] < MaxConnCalls
    /\ writer = 0
    /\ WritersWaiting = {}
    /\ kop' = [kop EXCEPT ![k] = op]
    /\ kseen' = [kseen EXCEPT ![k] = phase]
    /\ kcalls' = [kcalls EXCEPT ![k] = @ + 1]
    /\ readers' = readers \cup {k}
    /\ transport' = transport + 1
    /\ kpc' = [kpc EXCEPT ![k] = "awaiting"]
    /\ kres' = [kres EXCEPT ![k] = "none"]
    /\ kafter' = [kafter EXCEPT ![k] = disconnectReturned]
    /\ UNCHANGED <<phase, writer, finishConnects, installed, disconnected,
                   disconnectReturned>>
    /\ UNCHANGED <<chatVars, ackVars, proxyVars, svcVars, evVars, callVars>>

\* send / disconnect that drop the read guard before awaiting the inner call.
ForwardBeginDropsGuard(k, op) ==
    /\ kpc[k] = "idle"
    /\ kcalls[k] < MaxConnCalls
    /\ writer = 0
    /\ WritersWaiting = {}
    /\ kop' = [kop EXCEPT ![k] = op]
    /\ kseen' = [kseen EXCEPT ![k] = phase]
    /\ kcalls' = [kcalls EXCEPT ![k] = @ + 1]
    /\ IF phase = "Running"
          THEN /\ UNCHANGED readers
               /\ transport' = transport + 1
               /\ kpc' = [kpc EXCEPT ![k] = "awaiting"]
               /\ kres' = [kres EXCEPT ![k] = "none"]
          ELSE /\ kres' = [kres EXCEPT ![k] = "panic: listener was not set"]
               /\ UNCHANGED <<readers, transport, kpc>>
    /\ kafter' = [kafter EXCEPT ![k] = disconnectReturned]
    /\ UNCHANGED <<phase, writer, finishConnects, installed, disconnected,
                   disconnectReturned>>
    /\ UNCHANGED <<chatVars, ackVars, proxyVars, svcVars, evVars, callVars>>

\* send lines 326-330 and disconnect lines 334-338 up to the await of the inner
\* call: take a read lock; anything but Running panics with "listener was not
\* set" (dropping the guard); Running forwards the call to the ChatConnection.
ForwardBegin(k, op) ==
    /\ kpc[k] = "idle"
    /\ kcalls[k] < MaxConnCalls
    /\ writer = 0
    /\ WritersWaiting = {}
    /\ kop' = [kop EXCEPT ![k] = op]
    /\ kseen' = [kseen EXCEPT ![k] = phase]
    /\ kcalls' = [kcalls EXCEPT ![k] = @ + 1]
    /\ IF phase = "Running"
          THEN /\ readers' = readers \cup {k}
               /\ transport' = transport + 1
               /\ kpc' = [kpc EXCEPT ![k] = "awaiting"]
               /\ kres' = [kres EXCEPT ![k] = "none"]
          ELSE /\ kres' = [kres EXCEPT ![k] = "panic: listener was not set"]
               /\ UNCHANGED <<readers, transport, kpc>>
    /\ kafter' = [kafter EXCEPT ![k] = disconnectReturned]
    /\ UNCHANGED <<phase, writer, finishConnects, installed, disconnected,
                   disconnectReturned>>
    /\ UNCHANGED <<chatVars, ackVars, proxyVars, svcVars, evVars, callVars>>

SendBegin(k) == ForwardBegin(k, "send")

DisconnectBegin(k) == ForwardBegin(k, "disconnect")

\* ChatConnection::send as the specification describes it: a response or a
\* ChatServiceError; once the connection is disconnected, pending and future
\* sends fail with "disconnected".
SendOutcomes(d) ==
    IF d THEN {"Disconnected"} ELSE {"Response", "Timeout", "Disconnected"}

\* send line 330: inner.send(message, timeout).await yields a response or a
\* ChatServiceError; the read guard is dropped when the call returns.
SendComplete(k, outcome) ==
    /\ kpc[k] = "awaiting"
    /\ kop[k] = "send"
    /\ outcome \in SendOutcomes(disconnected)
    /\ kres' = [kres EXCEPT ![k] = outcome]
    /\ readers' = readers \ {k}
    /\ kpc' = [kpc EXCEPT ![k] = "idle"]
    /\ UNCHANGED <<phase, writer, kop, kseen, kcalls, transport, finishConnects,
                   installed, disconnected, disconnectReturned, kafter>>
    /\ UNCHANGED <<chatVars, ackVars, proxyVars, svcVars, evVars, callVars>>

\* disconnect that returns without forwarding to the ChatConnection.
DisconnectCompleteNoForward(k) ==
    /\ kpc[k] = "awaiting"
    /\ kop[k] = "disconnect"
    /\ UNCHANGED disconnected
    /\ disconnectReturned' = TRUE
    /\ kres' = [kres EXCEPT ![k] = "ok"]
    /\ readers' = readers \ {k}
    /\ kpc' = [kpc EXCEPT ![k] = "idle"]
    /\ UNCHANGED <<phase, writer, kop, kseen, kcalls, transport, finishConnects,
                   installed, kafter>>
    /\ UNCHANGED <<chatVars, ackVars, proxyVars, svcVars, evVars, callVars>>

\* disconnect line 338: inner.disconect().await closes the connection.
DisconnectComplete(k) ==
    /\ kpc[k] = "awaiting"
    /\ kop[k] = "disconnect"
    /\ disconnected' = TRUE
    /\ disconnectReturned' = TRUE
    /\ kres' = [kres EXCEPT ![k] = "ok"]
    /\ readers' = readers \ {k}
    /\ kpc' = [kpc EXCEPT ![k] = "idle"]
    /\ UNCHANGED <<phase, writer, kop, kseen, kcalls, transport, finishConnects,
                   installed, kafter>>
    /\ UNCHANGED <<chatVars, ackVars, proxyVars, svcVars, evVars, callVars>>

\* info that treats WaitingForListener as send and disconnect do.
InfoNeedsRunning(k) ==
    /\ kpc[k] = "idle"
    /\ kcalls[k] < MaxConnCalls
    /\ writer = 0
    /\ WritersWaiting = {}
    /\ kop' = [kop EXCEPT ![k] = "info"]
    /\ kseen' = [kseen EXCEPT ![k] = phase]
    /\ kcalls' = [kcalls EXCEPT ![k] = @ + 1]
    /\ kres' = [kres EXCEPT ![k] =
                  CASE phase = "Running" -> "info: running"
                    [] phase = "WaitingForListener" -> "panic: listener was not set"
                    [] OTHER -> "panic: unobservable state"]
    /\ UNCHANGED <<phase, writer, readers, kpc, transport, finishConnects, installed,
                   disconnected, disconnectReturned, kafter>>
    /\ UNCHANGED <<chatVars, ackVars, proxyVars, svcVars, evVars, callVars>>

\* info lines 341-350: under a blocking read lock, Running and
\* WaitingForListener both yield the connection info; TemporarilyEvicted is
\* unreachable!("unobservable state").
Info(k) ==
    /\ kpc[k] = "idle"
    /\ kcalls[k] < MaxConnCalls
    /\ writer = 0
    /\ WritersWaiting = {}
    /\ kop' = [kop EXCEPT ![k] = "info"]
    /\ kseen' = [kseen EXCEPT ![k] = phase]
    /\ kcalls' = [kcalls EXCEPT ![k] = @ + 1]
    /\ kres' = [kres EXCEPT ![k] =
                  CASE phase = "Running" -> "info: running"
                    [] phase = "WaitingForListener" -> "info: pending"
                    [] OTHER -> "panic: unobservable state"]
    /\ UNCHANGED <<phase, writer, readers, kpc, transport, finishConnects, installed,
                   disconnected, disconnectReturned, kafter>>
    /\ UNCHANGED <<chatVars, ackVars, proxyVars, svcVars, evVars, callVars>>

\* init_listener lines 366-370 when ChatConnection::finish_connect panics: the
\* pending connection was moved out at line 355 and is dropped by the unwind,
\* the cell keeps the TemporarilyEvicted that mem::replace left in it, and the
\* write guard is released (tokio's RwLock is not poisoned).
InitListenerFinishPanics(k) ==
    /\ kpc[k] = "init"
    /\ writer = k
    /\ kseen[k] = "WaitingForListener"
    /\ finishConnects' = finishConnects + 1
    /\ kres' = [kres EXCEPT ![k] = "panic: finish_connect"]
    /\ writer' = 0
    /\ kpc' = [kpc EXCEPT ![k] = "idle"]
    /\ UNCHANGED <<phase, installed, readers, kop, kseen, kcalls, transport, disconnected,
                   disconnectReturned, kafter>>
    /\ UNCHANGED <<chatVars, ackVars, proxyVars, svcVars, evVars, callVars>>

ConnNext ==
    \/ \E k \in ConnCallers : InitListenerRequest(k)
    \/ \E k \in ConnCallers : InitListenerBegin(k)
    \/ \E k \in ConnCallers : InitListenerFinish(k)
    \/ \E k \in ConnCallers : SendBegin(k)
    \/ \E k \in ConnCallers : DisconnectBegin(k)
    \/ \E k \in ConnCallers, o \in {"Response", "Timeout", "Disconnected"} : SendComplete(k, o)
    \/ \E k \in ConnCallers : DisconnectComplete(k)
    \/ \E k \in ConnCallers : Info(k)

\* ======================================================= ServerMessageAck
\* ServerMessageAck::new lines 627-631: the token wraps the sender.
ServerMessageAckNew ==
    /\ ackCell = "full"
    /\ rpc = [r \in Redeemers |-> "idle"]
    /\ rop = [r \in Redeemers |-> "none"]
    /\ rstatus = [r \in Redeemers |-> 0]
    /\ reports = <<>>

\* take() that always hands out a sender.
TakeResultAlwaysSome(cell) == "Some"

\* take() that leaves the cell as it found it.
TakeLeavesUntouched(cell) == cell

\* ServerMessageAck::take lines 633-635, AtomicTake::take: the value the call
\* returns and the value it leaves in the cell, in one atomic step.
TakeResult(cell) == IF cell = "full" THEN "Some" ELSE "None"

TakeLeaves(cell) == "empty"

\* ServerMessageAck_Send lines 339-341 and ServerMessageAck_SendStatus lines
\* 345-350 up to the await: ack.take().expect("a message is only acked once"),
\* then the sender is called with the status.
Redeem(r, op, status) ==
    /\ rpc[r] = "idle"
    /\ rop' = [rop EXCEPT ![r] = op]
    /\ ackCell' = TakeLeaves(ackCell)
    /\ IF TakeResult(ackCell) = "Some"
          THEN /\ rpc' = [rpc EXCEPT ![r] = "sending"]
               /\ rstatus' = [rstatus EXCEPT ![r] = status]
               /\ reports' = Append(reports, status)
          ELSE /\ rpc' = [rpc EXCEPT ![r] = "panic: a message is only acked once"]
               /\ UNCHANGED <<rstatus, reports>>
    /\ UNCHANGED <<chatVars, connVars, proxyVars, svcVars, evVars, callVars>>

ServerMessageAck_Send(r) == Redeem(r, "Send", StatusOK)

ServerMessageAck_SendStatus(r, status) == Redeem(r, "SendStatus", status)

\* lines 341 and 350: future(status).await yields Ok(()) or a ChatServiceError.
AckFutureCompletes(r, outcome) ==
    /\ rpc[r] = "sending"
    /\ rpc' = [rpc EXCEPT ![r] = outcome]
    /\ UNCHANGED <<ackCell, rop, rstatus, reports>>
    /\ UNCHANGED <<chatVars, connVars, proxyVars, svcVars, evVars, callVars>>

AckNext ==
    \/ \E r \in Redeemers : ServerMessageAck_Send(r)
    \/ \E r \in Redeemers, st \in Statuses : ServerMessageAck_SendStatus(r, st)
    \/ \E r \in Redeemers, o \in {"Ok", "Err"} : AckFutureCompletes(r, o)

\* ========================================================= specifications
\* ============================================================ Chat::service
Senders == 1..NumSenders

\* Chat::new lines 91-99: the service is connected and nothing is being sent.
ChatServiceNew ==
    /\ sending = {}
    /\ serviceDisconnected = FALSE
    /\ stopped = 0

\* a send that takes the listener mutex before it forwards the request.
ChatServiceSendBeginLocks(s) ==
    /\ s \notin sending
    /\ listenerLock = 0
    /\ sending' = sending \cup {s}
    /\ UNCHANGED <<serviceDisconnected, stopped>>
    /\ UNCHANGED <<chatVars, connVars, ackVars, proxyVars, evVars, callVars>>

\* ChatService_unauth_send / ChatService_auth_send (bridge lines 220-306) up to
\* the await: the request is built from the HttpRequest and handed to
\* chat.service.
ChatServiceSendBegin(s) ==
    /\ s \notin sending
    /\ sending' = sending \cup {s}
    /\ UNCHANGED <<serviceDisconnected, stopped>>
    /\ UNCHANGED <<chatVars, connVars, ackVars, proxyVars, evVars, callVars>>

\* the awaited send returns its response or a ChatServiceError to the caller.
ChatServiceSendComplete(s, outcome) ==
    /\ s \in sending
    /\ outcome \in SendOutcomes(serviceDisconnected)
    /\ sending' = sending \ {s}
    /\ UNCHANGED <<serviceDisconnected, stopped>>
    /\ UNCHANGED <<chatVars, connVars, ackVars, proxyVars, evVars, callVars>>

\* disconnect that also cancels the listener's run-loop.
ChatServiceDisconnectCancels ==
    /\ ~serviceDisconnected
    /\ serviceDisconnected' = TRUE
    /\ cancelDropped' = [t \in Tasks |-> cancelDropped[t] \/ pc[t] # "unspawned"]
    /\ UNCHANGED <<sending, stopped>>
    /\ UNCHANGED <<listener, listenerLock, cpc, csaved, cfut, clistener, nextListener,
                   pc, src, cur, log, running, blocking, stream, arrived, closed,
                   dispatched, streamOwner, dispAtSet, replaced, panics, arrivedAtSet,
                   arrivedAtClear>>
    /\ UNCHANGED <<connVars, ackVars, proxyVars, evVars, callVars>>

\* ChatService_disconnect_unauth / _auth (bridge lines 196-204):
\* chat.service.0.disconnect().await.
ChatServiceDisconnect ==
    /\ ~serviceDisconnected
    /\ serviceDisconnected' = TRUE
    /\ UNCHANGED <<sending, stopped>>
    /\ UNCHANGED <<chatVars, connVars, ackVars, proxyVars, evVars, callVars>>

\* the transport reports closure as the specification describes it: a terminal
\* Stopped event is pushed into the stream, which then ends.
TransportCloses ==
    /\ serviceDisconnected
    /\ ~closed
    /\ arrived < MaxEvents
    /\ Len(stream) < ChannelCapacity
    /\ arrived' = arrived + 1
    /\ stream' = Append(stream, arrived + 1)
    /\ stopped' = arrived + 1
    /\ closed' = TRUE
    /\ UNCHANGED <<sending, serviceDisconnected>>
    /\ UNCHANGED <<listener, listenerLock, cpc, csaved, cfut, clistener, nextListener,
                   pc, src, cancelDropped, cur, log, running, blocking, dispatched,
                   streamOwner, dispAtSet, replaced, panics, arrivedAtSet, arrivedAtClear>>
    /\ UNCHANGED <<connVars, ackVars, proxyVars, evVars, callVars>>

\* ================================= ChatListener::received_server_request
\* chat::server_requests::ServerEvent as lines 523-537 take it apart; send_ack
\* is the event's own ResponseEnvelopeSender.
IncomingMessage(envelope, timestamp, send_ack) ==
    [kind |-> "IncomingMessage", envelope |-> envelope,
     server_delivery_timestamp |-> timestamp, send_ack |-> send_ack]
QueueEmpty == [kind |-> "QueueEmpty"]
Stopped(error) == [kind |-> "Stopped", error |-> error]

Envelopes == {"a", "b"}
Timestamps == {10, 20}
Causes == {"ServiceUnavailable", "Disconnected"}

\* no event has been received
ServerEventsNew ==
    /\ inbox = <<>>
    /\ handled = <<>>
    /\ calls = <<>>

\* ServerMessageAck::new lines 627-631: a new token whose cell holds the sender.
ServerMessageAck_new(send_ack) == [inner |-> "full", sender |-> send_ack]

\* received_server_request that reports a Stopped event as an empty queue.
received_server_request_stopped_as_empty(request) ==
    IF request.kind = "IncomingMessage"
       THEN <<[callback |-> "received_incoming_message",
               envelope |-> request.envelope,
               timestamp |-> request.server_delivery_timestamp,
               ack |-> ServerMessageAck_new(request.send_ack)]>>
       ELSE <<[callback |-> "received_queue_empty"]>>

\* received_server_request that hands every message the token of the first.
received_server_request_shared_token(request) ==
    IF request.kind = "IncomingMessage"
       THEN <<[callback |-> "received_incoming_message",
               envelope |-> request.envelope,
               timestamp |-> request.server_delivery_timestamp,
               ack |-> ServerMessageAck_new(1)]>>
    ELSE IF request.kind = "QueueEmpty"
       THEN <<[callback |-> "received_queue_empty"]>>
       ELSE <<[callback |-> "connection_interrupted", cause |-> request.error]>>

\* received_server_request lines 522-539: the listener callbacks the call
\* makes, in order, with their arguments.
received_server_request(request) ==
    IF request.kind = "IncomingMessage"
       THEN <<[callback |-> "received_incoming_message",
               envelope |-> request.envelope,
               timestamp |-> request.server_delivery_timestamp,
               ack |-> ServerMessageAck_new(request.send_ack)]>>
    ELSE IF request.kind = "QueueEmpty"
       THEN <<[callback |-> "received_queue_empty"]>>
       ELSE <<[callback |-> "connection_interrupted", cause |-> request.error]>>

\* the server sends an event; a message carries a sender of its own.
ServerEventArrives(ev) ==
    /\ Len(handled) + Len(inbox) < MaxServerEvents
    /\ ev.kind = "IncomingMessage" => ev.send_ack = Len(handled) + Len(inbox) + 1
    /\ inbox' = Append(inbox, ev)
    /\ UNCHANGED <<handled, calls>>
    /\ UNCHANGED <<chatVars, connVars, ackVars, proxyVars, svcVars, callVars>>

\* lines 585-590: the event pulled from the stream is handed to
\* listener.received_server_request.
ReceivedServerRequest ==
    /\ inbox # <<>>
    /\ inbox' = Tail(inbox)
    /\ handled' = Append(handled, Head(inbox))
    /\ calls' = calls \o received_server_request(Head(inbox))
    /\ UNCHANGED <<chatVars, connVars, ackVars, proxyVars, svcVars, callVars>>

ServerEvents ==
    {IncomingMessage(e, ts, n) : e \in Envelopes, ts \in Timestamps, n \in 1..MaxServerEvents}
        \cup {QueueEmpty} \cup {Stopped(c) : c \in Causes}

EventsNext ==
    \/ \E ev \in ServerEvents : ServerEventArrives(ev)
    \/ ReceivedServerRequest

\* ================================================== registration requests
\* an absent string field
None == "None"
\* an Option: None, or Some(x)
Nothing == <<>>
Some(x) == <<x>>
SessionIds == 1..NumSessionIds

\* nothing has been converted, read or searched
CallsNew ==
    /\ chatRequest = <<>>
    /\ tried = <<>>
    /\ registered = <<>>
    /\ searched = <<>>

\* request.rs lines 18-21
CONTENT_TYPE_JSON == <<"content-type", "application/json">>

\* request.rs line 492
VERIFICATION_SESSION_PATH_PREFIX == "/v1/verification/session"

\* SessionId::as_url_path_segment (lines 269, 298): the session id as one
\* segment of a path.
as_url_path_segment(session_id) == [segment |-> session_id]

\* the request types of lines 38-40 and 189-211, by their fields
GetSession == [type |-> "GetSession"]
UpdateRegistrationSession(captcha, push_token, push_token_type, push_challenge) ==
    [type |-> "UpdateRegistrationSession", captcha |-> captcha, push_token |-> push_token,
     push_token_type |-> push_token_type, push_challenge |-> push_challenge]
RequestVerificationCode(via, client) ==
    [type |-> "RequestVerificationCode", transport |-> via, client |-> client]
SubmitVerificationCode(code) == [type |-> "SubmitVerificationCode", code |-> code]

\* Request::METHOD, lines 265, 280, 294, 313
METHOD(type) ==
    CASE type = "GetSession" -> "GET"
      [] type = "UpdateRegistrationSession" -> "PATCH"
      [] type = "RequestVerificationCode" -> "POST"
      [] type = "SubmitVerificationCode" -> "PUT"

\* request_path that gives SubmitVerificationCode the session's own path.
request_path_submit_on_session(type, session_id) ==
    IF type \in {"GetSession", "UpdateRegistrationSession", "SubmitVerificationCode"}
       THEN <<VERIFICATION_SESSION_PATH_PREFIX, as_url_path_segment(session_id)>>
       ELSE <<VERIFICATION_SESSION_PATH_PREFIX, as_url_path_segment(session_id), "code">>

\* Request::request_path, lines 266-273, 281-283, 295-302, 314-316: the path
\* as its segments.
request_path(type, session_id) ==
    IF type \in {"GetSession", "UpdateRegistrationSession"}
       THEN <<VERIFICATION_SESSION_PATH_PREFIX, as_url_path_segment(session_id)>>
       ELSE <<VERIFICATION_SESSION_PATH_PREFIX, as_url_path_segment(session_id), "code">>

\* serde_json::to_vec of a struct with skip_serializing_none: the object's
\* members, the None ones left out.
JsonObject(members) == {m \in members : m[2] # None}

\* Request::into_json_body, lines 274-276, 284-290, 303-309, 317-323
into_json_body(request) ==
    CASE request.type = "GetSession" -> Nothing
      [] request.type = "UpdateRegistrationSession" ->
            Some(JsonObject({<<"captcha", request.captcha>>,
                        <<"pushToken", request.push_token>>,
                        <<"pushTokenType", request.push_token_type>>,
                        <<"pushChallenge", request.push_challenge>>}))
      [] request.type = "RequestVerificationCode" ->
            Some(JsonObject({<<"transport", request.transport>>, <<"client", request.client>>}))
      [] request.type = "SubmitVerificationCode" ->
            Some(JsonObject({<<"code", request.code>>}))

\* headers that always carry the content type.
request_headers_always(body) == {CONTENT_TYPE_JSON}

\* line 515: HeaderMap::from_iter(body.is_some().then_some(CONTENT_TYPE_JSON))
request_headers(body) == IF body # Nothing THEN {CONTENT_TYPE_JSON} ELSE {}

\* From<RegistrationRequest<R>> for chat::Request, lines 506-524
chat_request_from(session_id, request) ==
    [method |-> METHOD(request.type),
     headers |-> request_headers(into_json_body(request)),
     path |-> request_path(request.type, session_id),
     body |-> into_json_body(request)]

RegistrationRequests ==
    {GetSession}
      \cup {UpdateRegistrationSession(c, t, ty, ch) :
                c \in {None, "captcha"}, t \in {None, "token"},
                ty \in {None, "apn", "fcm"}, ch \in {None, "challenge"}}
      \cup {RequestVerificationCode(tr, cl) : tr \in {"sms", "voice"},
                                              cl \in {"client name", "other"}}
      \cup {SubmitVerificationCode(code) : code \in {"123456", "000000"}}

\* a RegistrationRequest is converted into a chat request
IntoChatRequest(session_id, request) ==
    /\ chatRequest' = <<[session_id |-> session_id, request |-> request],
                        chat_request_from(session_id, request)>>
    /\ UNCHANGED <<tried, registered, searched>>
    /\ UNCHANGED <<chatVars, connVars, ackVars, proxyVars, svcVars, evVars>>

RequestNext ==
    \E session_id \in SessionIds, request \in RegistrationRequests :
        IntoChatRequest(session_id, request)

\* ================================================= registration responses
\* a chat::Response as lines 439-444 take it apart; the body's bytes are
\* known by what serde_json makes of them.
ChatResponse(status, retry_after, content_type, body) ==
    [status |-> status,
     headers |-> [retry_after |-> retry_after, content_type |-> content_type],
     body |-> body]

ResponseStatuses == {200, 204, 404, 422, 429, 500}
RetryAfterValues == {None, "5", "30"}
ContentTypes == {None, "application/json", "text/plain"}
\* bodies: a document of the expected schema, and one for each
\* serde_json::error::Category
Bodies == {"document", "Data", "Syntax", "Io", "Eof"}

\* StatusCode::is_success, line 446
is_success(status) == status \in 200..299

\* the seconds a retry-after value stands for
Seconds(value) == IF value = "5" THEN 5 ELSE 30

\* extract_retry_later(&headers), line 448: the RetryLater of a retry-after
\* header, if there is one.
extract_retry_later(headers) ==
    IF headers.retry_after = None
       THEN Nothing
       ELSE Some([retry_after_seconds |-> Seconds(headers.retry_after)])

\* serde_json::from_slice(&body).map_err(...), lines 471-476
from_slice(body) ==
    CASE body = "document" -> [tag |-> "Ok", value |-> body]
      [] body = "Data" -> [tag |-> "UnexpectedData"]
      [] OTHER -> [tag |-> "InvalidJson"]

\* try_into_response that looks at the content type and the body first.
try_into_response_content_first(response) ==
    IF response.headers.content_type # "application/json"
       THEN [tag |-> "UnexpectedContentType", content_type |-> response.headers.content_type]
    ELSE IF response.body = Nothing
       THEN [tag |-> "MissingBody"]
    ELSE IF ~is_success(response.status)
       THEN [tag |-> "UnrecognizedStatus", status |-> response.status,
             response_headers |-> response.headers, response_body |-> response.body]
       ELSE from_slice(response.body[1])

\* Response::try_into_response, lines 434-478
try_into_response(response) ==
    IF ~is_success(response.status)
       THEN IF response.status = 429 /\ extract_retry_later(response.headers) # Nothing
               THEN [tag |-> "RetryLater",
                     retry_later |-> extract_retry_later(response.headers)[1]]
            ELSE IF response.status = 422
               THEN [tag |-> "InvalidRequest"]
               ELSE [tag |-> "UnrecognizedStatus", status |-> response.status,
                     response_headers |-> response.headers,
                     response_body |-> response.body]
    ELSE IF response.headers.content_type # "application/json"
       THEN [tag |-> "UnexpectedContentType", content_type |-> response.headers.content_type]
    ELSE IF response.body = Nothing
       THEN [tag |-> "MissingBody"]
       ELSE from_slice(response.body[1])

\* a response is read as a registration response
TryIntoResponse(response) ==
    /\ tried' = <<response, try_into_response(response)>>
    /\ UNCHANGED <<chatRequest, registered, searched>>
    /\ UNCHANGED <<chatVars, connVars, ackVars, proxyVars, svcVars, evVars>>

ChatResponses ==
    {ChatResponse(status, retry_after, content_type, body) :
        status \in ResponseStatuses, retry_after \in RetryAfterValues,
        content_type \in ContentTypes, body \in {Nothing} \cup {Some(b) : b \in Bodies}}

ResponseNext == \E response \in ChatResponses : TryIntoResponse(response)

\* ======================================================= register_account
\* NewMessageNotification, lines 175-184
Apn(id) == [kind |-> "Apn", id |-> id]
Gcm(id) == [kind |-> "Gcm", id |-> id]
WillFetchMessages == [kind |-> "WillFetchMessages", id |-> None]

\* serde_as Base64Padded (line 526): the padded base64 text of the bytes.
Base64Padded(bytes) == <<"base64", bytes>>

\* the match that reports every choice as fetching messages.
notification_fields_always_fetch(message_notification) == <<TRUE, Nothing>>

\* the match of lines 386-390: fetches_messages and push_token
notification_fields(message_notification) ==
    CASE message_notification.kind = "Apn" ->
            <<FALSE, Some({<<"apnRegistrationId", message_notification.id>>})>>
      [] message_notification.kind = "Gcm" ->
            <<FALSE, Some({<<"gcmRegistrationId", message_notification.id>>})>>
      [] message_notification.kind = "WillFetchMessages" -> <<TRUE, Nothing>>

\* lines 392-394 and SessionValidation (lines 157-161), as it is flattened
\* into the body
session_validation(session_id, recovery_password) ==
    IF session_id # Nothing
       THEN {<<"sessionId", session_id[1]>>}
       ELSE {<<"recoveryPassword", Base64Padded(recovery_password)>>}

\* a member for Some(x), nothing for None (skip_serializing_none)
OptionalMember(key, option) == IF option = Nothing THEN {} ELSE {<<key, option[1]>>}

\* chat::Request::register_account, lines 343-432: method, path and the
\* members of the JSON body that depend on the session, the notification
\* choice, the recovery password and the device transfer.
register_account(session_id, message_notification, recovery_password, device_transfer) ==
    [method |-> "POST",
     path |-> "/v1/registration",
     body |->
        session_validation(session_id, recovery_password)
          \cup {<<"accountAttributes",
                  {<<"fetchesMessages", notification_fields(message_notification)[1]>>,
                   <<"recoveryPassword", Base64Padded(recovery_password)>>}>>,
                <<"skipDeviceTransfer", device_transfer # Nothing>>}
          \cup OptionalMember("pushToken", notification_fields(message_notification)[2])]

RegisterArguments ==
    {[session_id |-> sid, message_notification |-> n, recovery_password |-> pw,
      device_transfer |-> dt] :
        sid \in {Nothing} \cup {Some(i) : i \in SessionIds},
        n \in {Apn("appleId"), Apn("other"), Gcm("googleId"), Gcm("other"), WillFetchMessages},
        pw \in {"recovery", "password", ""},
        dt \in {Nothing, Some("SkipDeviceTransfer")}}

\* a register_account request is built
RegisterAccount(args) ==
    /\ registered' = <<args, register_account(args.session_id, args.message_notification,
                                               args.recovery_password, args.device_transfer)>>
    /\ UNCHANGED <<chatRequest, tried, searched>>
    /\ UNCHANGED <<chatVars, connVars, ackVars, proxyVars, svcVars, evVars>>

RegisterNext == \E args \in RegisterArguments : RegisterAccount(args)

\* ================================================== KeyTransparency_Search
\* the serialized arguments, by what prost makes of them: bytes that do not
\* decode, or the message they decode to.
Garbage == <<"garbage">>
StoredTreeHead(tree_head) == <<"StoredTreeHead", tree_head>>
StoredAccountData(content) == <<"StoredAccountData", content>>

\* try_decode, lines 69-76
try_decode(bytes) == IF bytes = Garbage THEN <<"Err", "DecodeError">> ELSE <<"Ok", bytes>>

\* the match on the pair that lets an access key pass without an E164.
e164_pair_lenient(e164, unidentified_access_key) ==
    IF e164 = Nothing
       THEN <<"Ok", Nothing>>
    ELSE IF unidentified_access_key # Nothing
       THEN <<"Ok", Some(<<e164[1], unidentified_access_key[1]>>)>>
       ELSE <<"Err", "InvalidRequest", "E164 without unidentified access key">>

\* lines 105-120: the match on (e164, unidentified_access_key)
e164_pair(e164, unidentified_access_key) ==
    IF e164 = Nothing /\ unidentified_access_key = Nothing
       THEN <<"Ok", Nothing>>
    ELSE IF e164 # Nothing /\ unidentified_access_key # Nothing
       THEN <<"Ok", Some(<<e164[1], unidentified_access_key[1]>>)>>
    ELSE IF e164 = Nothing
       THEN <<"Err", "InvalidRequest", "Unidentified access key without an E164">>
       ELSE <<"Err", "InvalidRequest", "E164 without unidentified access key">>

\* lines 122-127: the account data, when supplied, is decoded and converted;
\* either step can fail, and the error is converted with Error::from.
decode_account_data(account_data) ==
    IF account_data = Nothing
       THEN <<"Ok", Nothing>>
    ELSE IF try_decode(account_data[1])[1] = "Err"
       THEN <<"Err", "DecodeError">>
    ELSE IF account_data[1] = StoredAccountData("incomplete")
       THEN <<"Err", "libsignal_keytrans::Error">>
       ELSE <<"Ok", account_data>>

\* lines 129-133: the stored tree head is decoded and its size is taken.
tree_head_size(last_distinguished_tree_head) ==
    IF try_decode(last_distinguished_tree_head)[1] = "Err"
       THEN <<"Err", "DecodeError">>
    ELSE IF last_distinguished_tree_head[2] = Nothing
       THEN <<"Err", "InvalidRequest", "distinguished tree head is missing">>
       ELSE <<"Ok", last_distinguished_tree_head[2][1]>>

\* lines 79-133: the first check that fails, or Nothing when the search goes
\* ahead.
search_rejection(args) ==
    IF e164_pair(args.e164, args.unidentified_access_key)[1] = "Err"
       THEN Some(e164_pair(args.e164, args.unidentified_access_key))
    ELSE IF decode_account_data(args.account_data)[1] = "Err"
       THEN Some(decode_account_data(args.account_data))
    ELSE IF tree_head_size(args.last_distinguished_tree_head)[1] = "Err"
       THEN Some(tree_head_size(args.last_distinguished_tree_head))
       ELSE Nothing

SearchArguments ==
    {[e164 |-> e, unidentified_access_key |-> k, username_hash |-> u,
      account_data |-> a, last_distinguished_tree_head |-> h] :
        e \in {Nothing, Some("+15550100")},
        k \in {Nothing, Some("access key")},
        u \in {Nothing, Some("hash")},
        a \in {Nothing, Some(Garbage), Some(StoredAccountData("incomplete")),
               Some(StoredAccountData("complete"))},
        h \in {Garbage, StoredTreeHead(Nothing), StoredTreeHead(Some(7))}}

\* what kt.search (libsignal_net) can return once it is called
SearchOutcomes == {<<"Ok", "SearchResult">>, <<"Err", "ChatSendError">>,
                   <<"Err", "VerificationFailed">>}

\* KeyTransparency_Search, lines 79-146: a rejected call returns its error
\* without calling kt.search; otherwise kt.search sends over the chat
\* connection and its result is passed on.
KeyTransparency_Search(args, outcome) ==
    /\ searched' = IF search_rejection(args) # Nothing
                      THEN <<args, search_rejection(args)[1], 0>>
                      ELSE <<args, outcome, 1>>
    /\ UNCHANGED <<chatRequest, tried, registered>>
    /\ UNCHANGED <<chatVars, connVars, ackVars, proxyVars, svcVars, evVars>>

SearchNext ==
    \E args \in SearchArguments, outcome \in SearchOutcomes :
        KeyTransparency_Search(args, outcome)

\* ================================================ ConnectionManager, connect
Direct == [kind |-> "direct", port |-> 0]
InvalidProxy == [kind |-> "invalid", port |-> 0]
Proxy(p) == [kind |-> "proxy", port |-> p]

\* the ports passed to set_proxy
Ports == {-1, 0, 1, 443, 65535, 65536, 100000}

\* ConnectionManager::new: no proxy is configured and nothing has connected.
ConnectionManagerNew ==
    /\ transportConnector = Direct
    /\ setProxyLog = <<>>
    /\ nconnects = 0
    /\ connPc = "idle"
    /\ connPath = "none"
    /\ connSeen = Direct
    /\ connResult = "none"
    /\ nstarts = 0
    /\ nobjects = 0

\* ConnectionManager_set_proxy as the specification describes it: a port that
\* is 0, negative or above 65535 fails validation and leaves the manager without
\* a valid route; any other port installs the proxy.
ConnectionManager_set_proxy(port) ==
    /\ Len(setProxyLog) < MaxProxyCalls
    /\ IF port \in 1..65535
          THEN /\ transportConnector' = Proxy(port)
               /\ setProxyLog' = Append(setProxyLog, <<port, "Ok">>)
          ELSE /\ transportConnector' = InvalidProxy
               /\ setProxyLog' = Append(setProxyLog, <<port, "Err">>)
    /\ UNCHANGED <<nconnects, connPc, connPath, connSeen, connResult, nstarts, nobjects>>
    /\ UNCHANGED <<chatVars, connVars, ackVars, svcVars, evVars, callVars>>

\* Chat::new_unauth lines 182-212 followed by ChatService_connect_unauth
\* (bridge lines 207-218): the service is built on a clone of the manager's
\* connector and then asked to connect.
ChatServiceConnectBegin ==
    /\ connPc = "idle"
    /\ nconnects < MaxConnects
    /\ nconnects' = nconnects + 1
    /\ connPath' = "service"
    /\ connSeen' = transportConnector
    /\ connResult' = "none"
    /\ connPc' = "connecting"
    /\ UNCHANGED <<transportConnector, setProxyLog, nstarts, nobjects>>
    /\ UNCHANGED <<chatVars, connVars, ackVars, svcVars, evVars, callVars>>

\* establish_chat_connection that goes on to start a connection when the
\* proxy configuration is invalid.
EstablishBeginStartsAnyway ==
    /\ connPc = "idle"
    /\ nconnects < MaxConnects
    /\ nconnects' = nconnects + 1
    /\ connPath' = "connection"
    /\ connSeen' = transportConnector
    /\ connResult' = "none"
    /\ connPc' = "connecting"
    /\ nstarts' = nstarts + 1
    /\ UNCHANGED <<transportConnector, setProxyLog, nobjects>>
    /\ UNCHANGED <<chatVars, connVars, ackVars, svcVars, evVars, callVars>>

\* establish_chat_connection lines 385-402 (called by connect, lines 253 and
\* 266): the connector is converted to a proxy configuration; an invalid one
\* makes the call return ServiceUnavailable before anything is attempted.
EstablishBegin ==
    /\ connPc = "idle"
    /\ nconnects < MaxConnects
    /\ nconnects' = nconnects + 1
    /\ connPath' = "connection"
    /\ connSeen' = transportConnector
    /\ IF transportConnector.kind = "invalid"
          THEN /\ connResult' = "ServiceUnavailable"
               /\ UNCHANGED <<connPc, nstarts>>
          ELSE /\ connResult' = "none"
               /\ connPc' = "connecting"
               /\ nstarts' = nstarts + 1
    /\ UNCHANGED <<transportConnector, setProxyLog, nobjects>>
    /\ UNCHANGED <<chatVars, connVars, ackVars, svcVars, evVars, callVars>>

\* the outcomes of a connection attempt as the specification describes them:
\* with no valid route the attempt ends with AllConnectionRoutesFailed.
ConnectOutcomes(connector) ==
    IF connector.kind = "invalid"
       THEN {"AllConnectionRoutesFailed"}
       ELSE {"Connected", "AllConnectionRoutesFailed", "TimeoutEstablishingConnection"}

\* the awaited connect returns (bridge line 217; start_connect_with, lines
\* 421-438); connect (lines 252-288) wraps a pending connection in a new
\* connection object and passes an error on.
ConnectComplete(outcome) ==
    /\ connPc = "connecting"
    /\ outcome \in ConnectOutcomes(connSeen)
    /\ connResult' = outcome
    /\ connPc' = "idle"
    /\ nobjects' = IF connPath = "connection" /\ outcome = "Connected"
                       THEN nobjects + 1 ELSE nobjects
    /\ UNCHANGED <<transportConnector, setProxyLog, nconnects, connPath, connSeen,
                   nstarts>>
    /\ UNCHANGED <<chatVars, connVars, ackVars, svcVars, evVars, callVars>>

ProxyNext ==
    \/ \E port \in Ports : ConnectionManager_set_proxy(port)
    \/ ChatServiceConnectBegin
    \/ EstablishBegin
    \/ \E o \in {"Connected", "AllConnectionRoutesFailed", "TimeoutEstablishingConnection"} :
          ConnectComplete(o)

Init ==
    ChatNew /\ ConnectionNew /\ ServerMessageAckNew /\ ConnectionManagerNew /\ ChatServiceNew
    /\ ServerEventsNew
    /\ CallsNew

Next == ChatNext

Spec == Init /\ [][Next]_vars

\* ChatNext with run-loop tasks that may terminate abnormally
ChatNextAbort ==
    \/ ChatNext
    \/ \E t \in Tasks : TaskAborts(t)
    \/ \E t \in Tasks : AwaitStreamFails(t)

SpecAbort == Init /\ [][ChatNextAbort]_vars

\* the listener slot and the run-loops, for a few listeners and events,
\* together with sends and a disconnect on the chat service
ServiceNext ==
    \/ /\ ChatNext
       /\ nextListener' <= ServiceListeners
       /\ arrived' <= ServiceEvents
       /\ \A c \in Callers : c > ServiceCallers => cpc'[c] = "idle"
    \/ \E s \in Senders : ChatServiceSendBegin(s)
    \/ \E s \in Senders, o \in {"Response", "Timeout", "Disconnected"} :
          ChatServiceSendComplete(s, o)
    \/ ChatServiceDisconnect
    \/ TransportCloses /\ arrived' <= ServiceEvents

SpecService == Init /\ [][ServiceNext]_vars

\* the translation of server events into listener callbacks
SpecEvents == Init /\ [][EventsNext]_vars

\* conversions of registration requests into chat requests
SpecRequest == Init /\ [][RequestNext]_vars

\* readings of chat responses as registration responses
SpecResponse == Init /\ [][ResponseNext]_vars

\* the register_account requests built
SpecRegister == Init /\ [][RegisterNext]_vars

\* the key transparency searches made
SpecSearch == Init /\ [][SearchNext]_vars

\* Spec with the arrival counts kept
SpecRec == Init /\ [][ChatNextRec]_vars

\* the executor runs every run-loop task that can take a step
ChatFairness ==
    \A t \in Tasks :
        /\ WF_vars(AwaitStream(t))
        /\ WF_vars(PollCancel(t))
        /\ WF_vars(PollStream(t))
        /\ WF_vars(StartDispatch(t))
        /\ WF_vars(DispatchJoined(t))

\* Spec with the run-loop tasks scheduled fairly
SpecFair == Init /\ [][ChatNext]_vars /\ ChatFairness

SpecConn == Init /\ [][ConnNext]_vars

\* the connection cell when finish_connect can fail abnormally
ConnNextPanic ==
    \/ ConnNext
    \/ \E k \in ConnCallers : InitListenerFinishPanics(k)

SpecConnPanic == Init /\ [][ConnNextPanic]_vars

SpecAck == Init /\ [][AckNext]_vars

SpecProxy == Init /\ [][ProxyNext]_vars


\* ================================================================= claims
\* events of the <<listener, event>> pairs of a dispatch sequence
EventsOf(d) == [i \in 1..Len(d) |-> d[i][2]]

\* listener 2's run-loop is attached, not cancelled, holds the stream and has
\* nothing left to pull or to dispatch
SecondListenerCaughtUp ==
    /\ nextListener = 2
    /\ listener = Active(2)
    /\ ~cancelDropped[2]
    /\ pc[2] \in {"select", "pollStream"}
    /\ stream = <<>>

\* C1 as claimed: listener A (1) is attached first and has been dispatched k
\* events when set_listener(B) (2) replaces it while Active, and no callback
\* panics; then B is dispatched events k+1, k+2, ... in this order (so its
\* i-th event is event k+i).
C1_AsClaimed ==
    (panics = 0 /\ replaced[2] = "Active")
        => \A i \in 1..Len(log[2]) : log[2][i] = dispAtSet[2] + i

\* C1 amended: with k as above, A is dispatched at most one further event
\* (A's events are 1..k or 1..k+1), B is dispatched exactly the events after
\* A's last one, in arrival order and each once, and when B has caught up with
\* the stream every arrived event has gone to A or to B.
C1_SwapLosesNothing ==
    (panics = 0 /\ replaced[2] = "Active")
        => /\ log[1] = Iota(0, Len(log[1]))
           /\ Len(log[1]) \in {dispAtSet[2], dispAtSet[2] + 1}
           /\ log[2] = Iota(Len(log[1]), Len(log[2]))
           /\ SecondListenerCaughtUp => Len(log[1]) + Len(log[2]) = arrived

C1_Witness ==
    /\ panics = 0
    /\ replaced[2] = "Active"
    /\ dispAtSet[2] >= 1
    /\ dispAtSet[2] < MaxEvents
    /\ Len(log[1]) = dispAtSet[2] + 1
    /\ Len(log[2]) >= 1
    /\ arrived = MaxEvents
    /\ SecondListenerCaughtUp

\* C2: for one token and any redemption calls in any interleaving, exactly one
\* of the calls made obtains the sender from take(), and at most one status
\* report is sent.
C2_OneWinner ==
    LET called == {r \in Redeemers : rpc[r] # "idle"}
        winners == {r \in Redeemers : rpc[r] \in {"sending", "Ok", "Err"}}
    IN /\ Cardinality(winners) = IF called = {} THEN 0 ELSE 1
       /\ Len(reports) <= 1
       /\ Len(reports) = Cardinality(winners)

C2_Witness ==
    /\ \A r \in Redeemers : rpc[r] # "idle"
    /\ \E r \in Redeemers : rpc[r] = "Ok" /\ rop[r] = "SendStatus"
    /\ \E r \in Redeemers : rop[r] = "Send" /\ rpc[r] = "panic: a message is only acked once"
    /\ Len(reports) = 1

Enters(k, ops) == kcalls'[k] = kcalls[k] + 1 /\ kop'[k] \in ops

\* C4: a send or disconnect entered while the phase is WaitingForListener
\* forwards nothing, panics with "listener was not set" and leaves the phase as
\* it is; every request is forwarded in phase Running, after the one
\* finish_connect.
C4_NoForwardWhilePending ==
    [][/\ \A k \in ConnCallers :
            (Enters(k, {"send", "disconnect"}) /\ phase = "WaitingForListener")
                => /\ transport' = transport
                   /\ phase' = "WaitingForListener"
                   /\ kres'[k] = "panic: listener was not set"
                   /\ kpc'[k] = "idle"
       /\ transport' # transport => (phase = "Running" /\ finishConnects = 1)]_vars

C4_Witness ==
    /\ \E k \in ConnCallers : kres[k] = "panic: listener was not set"
    /\ \E k \in ConnCallers : kop[k] = "send" /\ kres[k] = "Response"
    /\ transport > 0

\* C5: init_listener succeeds at most once: a call that finds Running panics
\* with "listener already set", installs no listener and does not call
\* finish_connect.
C5_InitListenerOnce ==
    [][/\ \A k \in ConnCallers :
            (kpc[k] = "init" /\ kpc'[k] = "idle" /\ kseen[k] = "Running")
                => /\ kres'[k] = "panic: listener already set"
                   /\ installed' = installed
                   /\ finishConnects' = finishConnects
                   /\ phase' = "Running"
       /\ finishConnects' <= 1
       /\ Len(installed') <= 1]_vars

C5_Witness ==
    /\ \E k \in ConnCallers : kres[k] = "panic: listener already set"
    /\ \E k \in ConnCallers : kop[k] = "init_listener" /\ kres[k] = "ok"
    /\ finishConnects = 1
    /\ writer = 0

\* the variant of the connection: the one in the cell, or, while init_listener
\* has moved it out under the write lock, the one init_listener holds
ObsPhase ==
    IF phase = "TemporarilyEvicted" /\ writer # 0 THEN kseen[writer] ELSE phase

\* C6: the connection starts WaitingForListener; its only change is from
\* WaitingForListener to Running, made by init_listener; so it happens at most
\* once and the connection is never WaitingForListener again.
C6_PendingThenRunning ==
    /\ ObsPhase = "WaitingForListener"
    /\ [][ObsPhase' # ObsPhase
            => /\ ObsPhase = "WaitingForListener"
               /\ ObsPhase' = "Running"
               /\ \E k \in ConnCallers :
                     kop[k] = "init_listener" /\ kpc[k] = "init" /\ kpc'[k] = "idle"]_vars

C6_Witness ==
    /\ phase = "Running"
    /\ writer = 0
    /\ disconnected
    /\ \E k \in ConnCallers : kres[k] = "panic: listener already set"
    /\ \E k \in ConnCallers : kop[k] = "info" /\ kseen[k] = "Running"

C8_MutatingUnobservable ==
    /\ listenerLock = 0 => listener.tag \in {"Inactive", "Active", "Cancelled"}
    /\ \A c \in Callers :
          /\ csaved[c].tag # "CurrentlyBeingMutated"
          /\ cpc[c] # "panicked"

C8_Witness ==
    /\ listenerLock = 0
    /\ listener.tag = "Cancelled"
    /\ nextListener >= 2
    /\ \E t \in Tasks : replaced[t] = "Cancelled"

\* C9: a callback of a listener starts only when no callback of that listener
\* is executing, so at most one is executing at any time.
C9_SequentialDispatch ==
    [][\A t \in Tasks :
          /\ CallbacksOf(t, running') \ running # {} => CallbacksOf(t, running) = {}
          /\ Cardinality(CallbacksOf(t, running')) <= 1]_vars

C9_Witness ==
    \E t \in Tasks :
        /\ Len(log[t]) >= 2
        /\ CallbacksOf(t, running) # {}
        /\ stream # <<>>

\* C10: when no callback panics, the events dispatched, to whichever listener,
\* in dispatch order are the events 1, 2, ... in arrival order: no reordering,
\* no duplicate, no gap.
C10_DispatchOrderIsArrivalOrder ==
    panics = 0 => EventsOf(dispatched) = Iota(0, Len(dispatched))

C10_Witness ==
    /\ panics = 0
    /\ Len(dispatched) = MaxEvents
    /\ Cardinality({dispatched[i][1] : i \in 1..Len(dispatched)}) >= 2
    /\ \E t \in Tasks : replaced[t] = "Cancelled"

\* set_listener(A), clear_listener() and set_listener(B) have all returned
\* before the first event arrived
SetClearSetBeforeAnyEvent ==
    /\ replaced[1] = "Inactive"
    /\ arrivedAtSet[1] = 0
    /\ arrivedAtClear[1] = 0
    /\ replaced[2] = "Cancelled"
    /\ arrivedAtSet[2] = 0

\* the positions of `dispatched` that hold event e
DispatchesOf(e) == {i \in 1..Len(dispatched) : dispatched[i][2] = e}

\* C11: after set_listener(A), clear_listener(), set_listener(B), all returned
\* before any event arrived, the first event is dispatched to B only, at most
\* once, and A receives no callback at all.
C11_FirstEventGoesToB ==
    SetClearSetBeforeAnyEvent
        => /\ log[1] = <<>>
           /\ Cardinality(DispatchesOf(1)) <= 1
           /\ \A i \in DispatchesOf(1) : dispatched[i][1] = 2

\* C12: once a disconnect() has returned the phase callers can observe stays
\* Running (a repeated init_listener puts Running back), a send that
\* begins afterwards is forwarded (it does not abort), and when it returns its
\* result is "Disconnected", never a response.
C12_SendAfterDisconnectFails ==
    [][/\ disconnectReturned => (ObsPhase = "Running" /\ ObsPhase' = "Running")
       /\ \A k \in ConnCallers :
             /\ (disconnectReturned /\ Enters(k, {"send"})) => kpc'[k] = "awaiting"
             /\ (kop[k] = "send" /\ kafter[k] /\ kpc[k] = "awaiting" /\ kpc'[k] = "idle")
                    => kres'[k] = "Disconnected"]_vars

C12_Witness ==
    \E k \in ConnCallers :
        /\ disconnectReturned
        /\ kop[k] = "send"
        /\ kafter[k]
        /\ kpc[k] = "idle"
        /\ kres[k] = "Disconnected"
        /\ phase = "Running"

\* C13: info() returns the connection info both while the connection is
\* WaitingForListener and while it is Running, never panics, and changes
\* neither the variant nor the connection.
C13_InfoInBothPhases ==
    [][\A k \in ConnCallers :
          Enters(k, {"info"})
              => /\ phase \in {"WaitingForListener", "Running"}
                 /\ kres'[k] = IF phase = "Running" THEN "info: running"
                                                   ELSE "info: pending"
                 /\ UNCHANGED <<phase, writer, readers, transport, finishConnects,
                                installed, disconnected>>]_vars

C13_Witness ==
    \E j, k \in ConnCallers :
        /\ kop[j] = "info" /\ kres[j] = "info: pending"
        /\ kop[k] = "info" /\ kres[k] = "info: running"

\* C14: every set_proxy with port 0, 100000 or a negative port is rejected, and
\* a connect that started on a manager left with the invalid proxy ends with
\* AllConnectionRoutesFailed: it does not succeed and reports no other error.
C14_InvalidProxyExhaustsRoutes ==
    /\ \A i \in 1..Len(setProxyLog) :
          setProxyLog[i][1] \in {-1, 0, 100000} => setProxyLog[i][2] = "Err"
    /\ (nconnects > 0 /\ connPc = "idle" /\ connSeen.kind = "invalid")
          => connResult = "AllConnectionRoutesFailed"

\* C15: when the callback of listener t has panicked, t's run-loop stops and
\* returns the stream without reading or dispatching anything; a run-loop that
\* has stopped never reads or dispatches again; an event is read only by the
\* run-loop that owns the stream; and every dispatch, after a panic too, is of
\* the event that follows the last one dispatched, so the event of the panic is
\* not delivered again. The connection is left alone.
C15_PanicStopsRunLoop ==
    [][/\ \A t \in Tasks :
             /\ (pc[t] = "dispatching" /\ blocking[t] = "panic" /\ pc'[t] # pc[t])
                    => /\ pc'[t] = "done"
                       /\ streamOwner' = <<"result", t>>
                       /\ UNCHANGED <<stream, log, dispatched, connVars>>
             /\ pc[t] = "done" => (pc'[t] = "done" /\ log'[t] = log[t])
       /\ Len(stream') < Len(stream)
             => /\ streamOwner[1] = "task"
                /\ pc[streamOwner[2]] = "pollStream"
       /\ dispatched' # dispatched
             => /\ Len(dispatched') = Len(dispatched) + 1
                /\ dispatched'[Len(dispatched')][2] = Len(dispatched) + 1]_vars

\* listener 1 panicked on event 1, and listener 2, set afterwards, is running
\* its callback for event 2
C15_Witness ==
    /\ panics = 1
    /\ nextListener = 2
    /\ pc[1] = "done"
    /\ log[1] = <<1>>
    /\ log[2] = <<2>>
    /\ <<2, 2>> \in running

\* run-loops that have the stream and may poll it
Pollers == {t \in Tasks : pc[t] \in {"select", "pollStream", "pulled", "dispatching"}}

\* who has the event stream: the slot (state Inactive), a caller that moved an
\* Inactive state out of the slot, a run-loop (from the moment it was given the
\* ready stream), or the result of a finished run-loop that no successor has
\* taken yet
StreamHolders ==
    (IF listener.tag = "Inactive" THEN {<<"slot", 0>>} ELSE {})
    \cup {<<"caller", c>> : c \in {d \in Callers : cpc[d] \in {"set", "clear"}
                                                  /\ csaved[d].tag = "Inactive"}}
    \cup {<<"task", t>> : t \in Pollers \cup {u \in Tasks : pc[u] = "awaitStream"
                                                           /\ src[u] = 0}}
    \cup {<<"result", t>> : t \in {u \in Tasks :
              /\ pc[u] = "done"
              /\ \A v \in Tasks : src[v] = u => pc[v] = "awaitStream"}}

\* who has the JoinHandle of run-loop t: the slot, a caller that moved the
\* state out, or the successor awaiting it
HandleHolders(t) ==
    (IF listener.handle = t THEN {<<"slot", 0>>} ELSE {})
    \cup {<<"caller", c>> : c \in {d \in Callers : cpc[d] \in {"set", "clear"}
                                                  /\ csaved[d].handle = t}}
    \cup {<<"task", v>> : v \in {u \in Tasks : src[u] = t /\ pc[u] = "awaitStream"}}

\* C16: the event stream has exactly one holder at every moment, at most one
\* run-loop can poll it, and the result of a run-loop is awaited through a
\* JoinHandle that has at most one holder and at most one successor.
C16_OneStreamOwner ==
    /\ Cardinality(StreamHolders) = 1
    /\ Cardinality(Pollers) <= 1
    /\ \A t \in Tasks :
          /\ Cardinality(HandleHolders(t)) <= 1
          /\ Cardinality({v \in Tasks : src[v] = t}) <= 1

\* a cancelled run-loop has returned the stream, an event in it, and its
\* successor has not taken it yet
C16_Witness ==
    \E t, v \in Tasks :
        /\ pc[t] = "done"
        /\ src[v] = t
        /\ pc[v] = "awaitStream"
        /\ stream # <<>>
        /\ StreamHolders = {<<"result", t>>}

\* C17: clear_listener turns Active into Cancelled with the same handle and
\* drops the cancel sender; it puts Inactive and Cancelled back as they were
\* (so a repeated clear changes nothing); it never panics and touches neither
\* the run-loops nor the stream.
C17_ClearListener ==
    [][\A c \in Callers :
          (cpc[c] = "clear" /\ cpc'[c] # "clear")
              => /\ cpc'[c] = "idle"
                 /\ csaved[c].tag \in {"Inactive", "Active", "Cancelled"}
                 /\ csaved[c].tag = "Active"
                       => /\ listener' = Cancelled(csaved[c].handle)
                          /\ cancelDropped' =
                                [cancelDropped EXCEPT ![csaved[c].handle] = TRUE]
                 /\ csaved[c].tag # "Active"
                       => /\ listener' = csaved[c]
                          /\ cancelDropped' = cancelDropped
                 /\ UNCHANGED <<pc, src, stream, log, dispatched, running>>]_vars

\* a listener was cleared, its run-loop has ended, and a second clear has found
\* the slot Cancelled
C17_Witness ==
    \E c \in Callers :
        /\ cpc[c] = "clear"
        /\ csaved[c].tag = "Cancelled"
        /\ cancelDropped[csaved[c].handle]
        /\ pc[csaved[c].handle] = "done"

\* C18: cancelling a listener (clear_listener, or a set_listener that replaces
\* it) leaves a callback in progress alone; a callback ends only by returning
\* or panicking; the run-loop leaves the dispatch only after that, and when the
\* callback returned it goes back to its select, where the cancellation ends it
\* without another dispatch. The event stays in the old listener's log.
C18_CallbackRunsToCompletion ==
    [][\A t \in Tasks :
          /\ (cancelDropped'[t] /\ ~cancelDropped[t])
                => UNCHANGED <<running, blocking, pc, log, dispatched, stream>>
          /\ CallbacksOf(t, running) \ running' # {}
                => blocking'[t] \in {"ok", "panic"}
          /\ (pc[t] = "dispatching" /\ pc'[t] # "dispatching")
                => /\ blocking[t] # "none"
                   /\ CallbacksOf(t, running) = {}
                   /\ blocking[t] = "ok" => pc'[t] = "select"
                   /\ log'[t] = log[t]
                   /\ log[t][Len(log[t])] = cur[t]
          /\ (cancelDropped[t] /\ pc[t] = "select" /\ pc'[t] # "select")
                => (pc'[t] = "done" /\ UNCHANGED <<log, dispatched, stream>>)]_vars

\* a listener has been cancelled while its callback is executing
C18_Witness ==
    \E t \in Tasks :
        /\ cancelDropped[t]
        /\ pc[t] = "dispatching"
        /\ <<t, cur[t]>> \in running
        /\ listener.tag \in {"Cancelled", "Active"}
        /\ listener.handle # t \/ listener.tag = "Cancelled"

\* C19: a run-loop that starts evaluating its select when its cancel sender is
\* already dropped and an item is available takes the cancellation branch: it
\* ends and returns the stream with the item still in it, undispatched.
C19_CancellationFirst ==
    [][\A t \in Tasks :
          (pc[t] = "select" /\ cancelDropped[t] /\ stream # <<>> /\ pc'[t] # pc[t])
              => /\ pc'[t] = "done"
                 /\ streamOwner' = <<"result", t>>
                 /\ UNCHANGED <<stream, cur, log, dispatched, running>>]_vars

\* a cancelled run-loop has ended and returned the stream with the next
\* undispatched event in it
C19_Witness ==
    \E t \in Tasks :
        /\ cancelDropped[t]
        /\ pc[t] = "done"
        /\ streamOwner = <<"result", t>>
        /\ stream # <<>>
        /\ Head(stream) = Len(dispatched) + 1

\* C20: an event that arrives while the slot is Cancelled is kept for the next
\* listener: as long as the slot is still Cancelled, the cancelled listener has
\* been given no event that arrived after its clear_listener returned.
C20_CancelledListenerGetsNothingNew ==
    \A t \in Tasks :
        (listener = Cancelled(t) /\ arrivedAtClear[t] >= 0)
            => \A i \in 1..Len(log[t]) : log[t][i] <= arrivedAtClear[t]

\* every callback that was started ends, by returning or by panicking
CallbacksEnd ==
    \A t \in Tasks :
        WF_vars(\E e \in 1..MaxEvents : CallbackReturn(t, e) \/ CallbackPanic(t, e))

\* C21: a run-loop started by a set_listener that replaced a listener takes the
\* stream only when the replaced listener's task has ended, with no callback of
\* it executing; if the callbacks in progress end, it does obtain the stream,
\* and an event waiting in the stream while a run-loop has the stream is
\* dispatched to that listener unless the listener is cancelled or its
\* run-loop ends on a panic.
C21_HandOffThenDelivery ==
    /\ [][\A t \in Tasks :
             (pc[t] = "awaitStream" /\ pc'[t] # "awaitStream" /\ src[t] # 0)
                 => /\ pc[src[t]] = "done"
                    /\ CallbacksOf(src[t], running) = {}]_vars
    /\ CallbacksEnd
          => /\ \A t \in Tasks : (pc[t] = "awaitStream") ~> (pc[t] # "awaitStream")
             /\ \A t \in Tasks, e \in 1..MaxEvents :
                   (t \in Pollers /\ stream # <<>> /\ Head(stream) = e)
                       ~> \/ \E i \in 1..Len(log[t]) : log[t][i] = e
                          \/ cancelDropped[t]
                          \/ pc[t] = "done"

\* listener 2 replaced the active listener 1, obtained the stream from its
\* task and has been given an event that arrived afterwards
C21_Witness ==
    /\ replaced[2] = "Active"
    /\ src[2] = 1
    /\ pc[1] = "done"
    /\ 2 \in Pollers
    /\ ~cancelDropped[2]
    /\ log[2] # <<>>

\* C22: set_listener and clear_listener wait for the listener mutex only: a
\* caller can start either whenever the mutex is free, and a caller inside one
\* can finish it, whatever the run-loop tasks and the callbacks are doing.
C22_AttachAndClearDoNotWait ==
    \A c \in Callers :
        /\ (cpc[c] = "idle" /\ listenerLock = 0)
              => /\ ENABLED ClearListenerBegin(c)
                 /\ nextListener < MaxListeners => ENABLED SetListenerBegin(c)
        /\ cpc[c] = "set" => ENABLED SetListenerFinish(c)
        /\ cpc[c] = "clear" => ENABLED ClearListenerFinish(c)
        /\ cpc[c] # "panicked"

\* a set_listener has returned while the callback of the listener it replaced
\* is still executing and the new run-loop awaits the old task
C22_Witness ==
    \E t, v \in Tasks :
        /\ CallbacksOf(t, running) # {}
        /\ src[v] = t
        /\ pc[v] = "awaitStream"
        /\ listener = Active(v)
        /\ listenerLock = 0

\* C23 as stated: no caller holds a guard of the connection lock while it
\* awaits the ChatConnection.
C23_NoGuardAcrossIO ==
    \A k \in ConnCallers : kpc[k] = "awaiting" => k \notin readers

\* C23: send and disconnect hold their read guard for as long as they await the
\* ChatConnection. The guard is shared, so with no init_listener queued a
\* send, disconnect or info can start whatever the awaiting calls do; an
\* init_listener is not granted the write lock while a call is awaiting, and
\* while it is queued no new send, disconnect or info starts.
C23_ReadGuardAcrossIO ==
    /\ readers = {k \in ConnCallers : kpc[k] = "awaiting"}
    /\ \A j \in ConnCallers :
          /\ (kpc[j] = "idle" /\ kcalls[j] < MaxConnCalls /\ writer = 0
                 /\ WritersWaiting = {})
                => /\ ENABLED SendBegin(j)
                   /\ ENABLED DisconnectBegin(j)
                   /\ ENABLED Info(j)
          /\ (kpc[j] = "initWait" /\ readers # {}) => ~ENABLED InitListenerBegin(j)
          /\ (kpc[j] = "idle" /\ WritersWaiting # {})
                => /\ ~ENABLED SendBegin(j)
                   /\ ~ENABLED DisconnectBegin(j)
                   /\ ~ENABLED Info(j)

\* a send awaits its response holding the read guard while an init_listener is
\* queued for the write lock
C23_Witness ==
    \E k, j \in ConnCallers :
        /\ kop[k] = "send"
        /\ kpc[k] = "awaiting"
        /\ k \in readers
        /\ kpc[j] = "initWait"

\* C24: once a run-loop task has terminated abnormally nobody has the stream
\* and no run-loop polls it; every listener set afterwards has a run-loop that
\* is still awaiting the previous task or has terminated abnormally itself, and
\* has been given no event.
C24_AbortPropagates ==
    \A t \in Tasks :
        pc[t] = "aborted"
            => /\ StreamHolders = {}
               /\ Pollers = {}
               /\ \A v \in Tasks :
                     v > t => /\ pc[v] \in {"unspawned", "awaitStream", "aborted"}
                              /\ log[v] = <<>>

\* the first run-loop terminated abnormally, and so did the run-loops of the
\* two listeners set after it
C24_Witness ==
    /\ nextListener = 3
    /\ \A t \in 1..3 : pc[t] = "aborted"
    /\ cancelDropped[1]
    /\ listener.tag \in {"Active", "Cancelled"}


\* ---------------------------------------------------------------- C25 .. C27
\* outcomes a send may be given
Outcomes == {"Response", "Timeout", "Disconnected"}

\* C25: a step of clear_listener or set_listener (anything that changes the
\* listener slot, a caller's position in such a call, or a cancel sender)
\* leaves the chat service as it was: no send in flight is touched, the
\* service is not disconnected, the stream is not closed. The outcomes a send
\* can return are those of the service's own state, whatever the slot holds, so
\* a send gets the same outcomes before, during and after a cancellation.
C25_ListenerChangesLeaveService ==
    /\ [][(listener' # listener \/ cpc' # cpc \/ cancelDropped' # cancelDropped)
             => UNCHANGED <<sending, serviceDisconnected, stopped, closed, stream,
                            arrived>>]_vars
    /\ [](\A s \in Senders, o \in Outcomes :
              ENABLED ChatServiceSendComplete(s, o)
                  <=> (s \in sending /\ o \in SendOutcomes(serviceDisconnected)))

\* a send was issued before a cancellation that has since happened, another is
\* issued after it, and the service is still connected
C25_Witness ==
    /\ listener.tag = "Cancelled"
    /\ cancelDropped[listener.handle]
    /\ sending = Senders
    /\ ~serviceDisconnected
    /\ ENABLED ChatServiceSendComplete(1, "Response")

\* C26: a send step leaves the listener slot, its lock and the run-loops as
\* they were, and it can always be taken: a send can start while the slot's
\* lock is held, while a callback executes, while a hand-off is pending and
\* while other sends are in flight, and a send in flight can complete then.
C26_SendsIgnoreListenerSlot ==
    /\ [][sending' # sending => UNCHANGED chatVars]_vars
    /\ [](\A s \in Senders :
              /\ s \notin sending => ENABLED ChatServiceSendBegin(s)
              /\ s \in sending => \E o \in Outcomes : ENABLED ChatServiceSendComplete(s, o))

\* every sender has a send in flight while the slot's lock is held, a callback
\* executes and a new run-loop waits for the previous one
C26_Witness ==
    /\ sending = Senders
    /\ listenerLock # 0
    /\ running # {}
    /\ \E t \in Tasks : pc[t] = "awaitStream" /\ src[t] # 0 /\ pc[src[t]] # "done"

\* C27: disconnecting changes neither the listener slot nor any run-loop and
\* cancels nothing. The Stopped event that reports the closure is the last
\* event that arrives and, once dispatched, the last event dispatched (it is
\* dispatched once). A run-loop that finds the stream ended and empty ends and
\* gives the stream back.
C27_DisconnectAndClosure ==
    /\ [][serviceDisconnected' # serviceDisconnected => UNCHANGED chatVars]_vars
    /\ [](stopped # 0
             => /\ closed
                /\ stopped = arrived
                /\ \A i \in 1..Len(dispatched) :
                      dispatched[i][2] = stopped => i = Len(dispatched))
    /\ [][\A t \in Tasks :
             (pc[t] = "pollStream" /\ closed /\ stream = <<>> /\ pc'[t] # pc[t])
                 => /\ pc'[t] = "done"
                    /\ streamOwner' = <<"result", t>>
                    /\ dispatched' = dispatched]_vars

\* after a disconnect the listener that was attached all along has received
\* an ordinary event and then the Stopped event, its run-loop has found the
\* stream ended and has returned it, and the slot is still Active
C27_Witness ==
    /\ serviceDisconnected
    /\ stopped = 2
    /\ listener.tag = "Active"
    /\ log[listener.handle] = <<1, 2>>
    /\ pc[listener.handle] = "done"
    /\ streamOwner = <<"result", listener.handle>>


\* ----------------------------------------------------------------------- C28
\* the stream has ended and everything in it has been pulled
Exhausted == closed /\ stream = <<>>

\* C28: a run-loop that leaves its select for good (it saw the cancellation, or
\* found the stream ended) gives the stream back as it is. Once the stream is
\* exhausted, a run-loop that has not pulled an event pulls and dispatches
\* none, its next poll is always possible and a poll of the stream ends it; a
\* set_listener then still completes and nothing panics or aborts.
C28_ExitReturnsStream ==
    /\ [][\A t \in Tasks :
             /\ (pc[t] \in {"select", "pollStream"} /\ pc'[t] = "done")
                   => /\ streamOwner' = <<"result", t>>
                      /\ stream' = stream
                      /\ closed' = closed
                      /\ cancelDropped[t] \/ Exhausted
             /\ (Exhausted /\ pc[t] \in {"unspawned", "awaitStream", "select", "pollStream"})
                   => /\ log'[t] = log[t]
                      /\ pc'[t] \in {"unspawned", "awaitStream", "select", "pollStream", "done"}
                      /\ (pc[t] = "pollStream" /\ pc'[t] # pc[t]) => pc'[t] = "done"]_vars
    /\ [](Exhausted
             => /\ \A t \in Tasks :
                      /\ pc[t] = "select" => ENABLED PollCancel(t)
                      /\ pc[t] = "pollStream" => ENABLED PollStream(t)
                      /\ pc[t] # "aborted"
                /\ \A c \in Callers :
                      /\ cpc[c] = "set" => ENABLED SetListenerFinish(c)
                      /\ cpc[c] # "panicked")

\* the first listener received every event and its run-loop ended with the
\* stream; a second listener was then set, was never cancelled, and its
\* run-loop has ended without a dispatch and holds the exhausted stream
C28_Witness ==
    /\ Exhausted
    /\ arrived > 0
    /\ Len(log[1]) = arrived
    /\ listener = Active(2)
    /\ ~cancelDropped[2]
    /\ dispAtSet[2] = arrived
    /\ pc[2] = "done"
    /\ log[2] = <<>>
    /\ streamOwner = <<"result", 2>>


\* ----------------------------------------------------------------------- C29
\* C29: a connection is started only as a step of a new connect call, one per
\* call, and nothing starts one while a call is in progress or after it has
\* returned; a connection object appears only in the step in which connect
\* returns success, so a connect that has returned an error has produced none;
\* and a connect called while the proxy configuration is invalid returns
\* ServiceUnavailable in that very step, without starting a connection.
C29_OneEstablishmentPerConnect ==
    /\ [][/\ nstarts' # nstarts
                => /\ nstarts' = nstarts + 1
                   /\ nconnects' = nconnects + 1
                   /\ connPc = "idle"
          /\ nobjects' # nobjects
                => /\ nobjects' = nobjects + 1
                   /\ connPc = "connecting" /\ connPc' = "idle"
                   /\ connResult' = "Connected"
          /\ (connPath' = "connection" /\ nconnects' # nconnects
                  /\ transportConnector.kind = "invalid")
                => /\ connResult' = "ServiceUnavailable"
                   /\ connPc' = "idle"
                   /\ nstarts' = nstarts]_vars
    /\ [](nobjects <= nstarts /\ nstarts <= nconnects)

\* a connect on an invalid proxy has returned ServiceUnavailable after an
\* earlier connect had started its one connection and failed: one connection
\* started in two calls, and no connection object
C29_Witness ==
    /\ nconnects = 2
    /\ nstarts = 1
    /\ nobjects = 0
    /\ connPc = "idle"
    /\ connPath = "connection"
    /\ connSeen.kind = "invalid"
    /\ connResult = "ServiceUnavailable"


\* ----------------------------------------------------------------------- C30
\* C30: the listener has been called once for each event handed to it, in
\* order, and the callback is the one of the event's kind: a message gives
\* received_incoming_message with the message's envelope and timestamp and a
\* token that holds the message's own sender, is unredeemed, and is no token
\* given before; an empty queue gives received_queue_empty; a Stopped event
\* gives connection_interrupted with the event's error.
C30_OneCallbackPerEvent ==
    /\ Len(calls) = Len(handled)
    /\ \A i \in 1..Len(handled) :
          LET ev == handled[i]
              c == calls[i]
          IN  /\ ev.kind = "IncomingMessage"
                    => /\ c.callback = "received_incoming_message"
                       /\ c.envelope = ev.envelope
                       /\ c.timestamp = ev.server_delivery_timestamp
                       /\ c.ack.sender = ev.send_ack
                       /\ c.ack.inner = "full"
                       /\ \A j \in 1..(i - 1) :
                             calls[j].callback = "received_incoming_message"
                                 => calls[j].ack # c.ack
              /\ ev.kind = "QueueEmpty" => c = [callback |-> "received_queue_empty"]
              /\ ev.kind = "Stopped"
                    => c = [callback |-> "connection_interrupted", cause |-> ev.error]

\* a message, an empty queue and a Stopped event have been handed over: the
\* listener has been called for the message, the empty queue and the closure
C30_Witness ==
    /\ Len(handled) = 3
    /\ calls[1].callback = "received_incoming_message"
    /\ calls[2].callback = "received_queue_empty"
    /\ calls[3].callback = "connection_interrupted"


\* ----------------------------------------------------------------------- C31
\* C31: a converted registration request has its type's method and path
\* (GetSession: GET prefix/id; UpdateRegistrationSession: PATCH on that path;
\* RequestVerificationCode: POST prefix/id/code; SubmitVerificationCode: PUT
\* on that path), and its only possible header is content-type:
\* application/json, present exactly when the chat request has a body.
C31_MethodPathAndContentType ==
    chatRequest # <<>> =>
        LET in == chatRequest[1]
            out == chatRequest[2]
            id == [segment |-> in.session_id]
            session == <<"/v1/verification/session", id>>
            code == <<"/v1/verification/session", id, "code">>
        IN  /\ in.request.type = "GetSession"
                  => out.method = "GET" /\ out.path = session /\ out.body = <<>>
            /\ in.request.type = "UpdateRegistrationSession"
                  => out.method = "PATCH" /\ out.path = session /\ out.body # <<>>
            /\ in.request.type = "RequestVerificationCode"
                  => out.method = "POST" /\ out.path = code /\ out.body # <<>>
            /\ in.request.type = "SubmitVerificationCode"
                  => out.method = "PUT" /\ out.path = code /\ out.body # <<>>
            /\ out.headers \subseteq {<<"content-type", "application/json">>}
            /\ (<<"content-type", "application/json">> \in out.headers) <=> out.body # <<>>

\* a GetSession was converted: no body and no header
C31_Witness ==
    /\ chatRequest # <<>>
    /\ chatRequest[1].request.type = "GetSession"
    /\ chatRequest[2].headers = {}


\* ----------------------------------------------------------------------- C32
\* C32: the result of try_into_response follows this precedence. A status
\* outside 200..299 decides alone: 429 with a retry-after header gives
\* RetryLater with the header's seconds, 422 gives InvalidRequest, anything
\* else (429 without the header too) gives UnrecognizedStatus with the
\* response's status, headers and body, whatever the content type and body
\* are. A success status without content-type application/json gives
\* UnexpectedContentType; with it and no body MissingBody; with a body the
\* parsed value, UnexpectedData when the data does not fit, and InvalidJson
\* for every other parse failure.
C32_ResponsePrecedence ==
    tried # <<>> =>
        LET r == tried[1]
            res == tried[2]
            success == r.status >= 200 /\ r.status <= 299
            json == r.headers.content_type = "application/json"
        IN  /\ (~success /\ r.status = 429 /\ r.headers.retry_after # "None")
                  => /\ res.tag = "RetryLater"
                     /\ r.headers.retry_after = "5" => res.retry_later.retry_after_seconds = 5
                     /\ r.headers.retry_after = "30" => res.retry_later.retry_after_seconds = 30
            /\ (~success /\ r.status = 422) => res = [tag |-> "InvalidRequest"]
            /\ (~success /\ r.status # 422
                    /\ ~(r.status = 429 /\ r.headers.retry_after # "None"))
                  => res = [tag |-> "UnrecognizedStatus", status |-> r.status,
                            response_headers |-> r.headers, response_body |-> r.body]
            /\ (success /\ ~json)
                  => res = [tag |-> "UnexpectedContentType",
                            content_type |-> r.headers.content_type]
            /\ (success /\ json /\ r.body = <<>>) => res = [tag |-> "MissingBody"]
            /\ (success /\ json /\ r.body # <<>>)
                  => /\ r.body[1] = "document" => res = [tag |-> "Ok", value |-> "document"]
                     /\ r.body[1] = "Data" => res = [tag |-> "UnexpectedData"]
                     /\ r.body[1] \in {"Syntax", "Io", "Eof"} => res = [tag |-> "InvalidJson"]

\* a 429 without retry-after, with a JSON content type and a good body, was
\* read as UnrecognizedStatus
C32_Witness ==
    /\ tried # <<>>
    /\ tried[1].status = 429
    /\ tried[1].headers = [retry_after |-> "None", content_type |-> "application/json"]
    /\ tried[1].body = <<"document">>
    /\ tried[2].tag = "UnrecognizedStatus"


\* ----------------------------------------------------------------------- C33
\* the members of a JSON object that have the given key
Members(object, key) == {m \in object : m[1] = key}

\* C33: in the body of a register_account request, accountAttributes has
\* fetchesMessages true exactly for WillFetchMessages and false otherwise; the
\* body has no pushToken exactly for WillFetchMessages, and for Apn and Gcm
\* pushToken holds the given id as apnRegistrationId or gcmRegistrationId. The
\* body carries sessionId, and no recoveryPassword of its own, when a session
\* id is supplied, and otherwise recoveryPassword with the encoded recovery
\* password and no sessionId.
C33_FetchesMessagesAndValidation ==
    registered # <<>> =>
        LET in == registered[1]
            body == registered[2].body
            kind == in.message_notification.kind
            id == in.message_notification.id
            password == <<"base64", in.recovery_password>>
        IN  /\ \E m \in body :
                  /\ m[1] = "accountAttributes"
                  /\ Members(m[2], "fetchesMessages")
                        = {<<"fetchesMessages", kind = "WillFetchMessages">>}
            /\ (Members(body, "pushToken") = {}) <=> kind = "WillFetchMessages"
            /\ kind = "Apn"
                  => Members(body, "pushToken") = {<<"pushToken", {<<"apnRegistrationId", id>>}>>}
            /\ kind = "Gcm"
                  => Members(body, "pushToken") = {<<"pushToken", {<<"gcmRegistrationId", id>>}>>}
            /\ in.session_id # <<>>
                  => /\ Members(body, "sessionId") = {<<"sessionId", in.session_id[1]>>}
                     /\ Members(body, "recoveryPassword") = {}
            /\ in.session_id = <<>>
                  => /\ Members(body, "recoveryPassword") = {<<"recoveryPassword", password>>}
                     /\ Members(body, "sessionId") = {}

\* a request was built for a device that fetches its messages and has no
\* session: no pushToken, and the recovery password validates
C33_Witness ==
    /\ registered # <<>>
    /\ registered[1].message_notification.kind = "WillFetchMessages"
    /\ registered[1].session_id = <<>>
    /\ Members(registered[2].body, "pushToken") = {}
    /\ Members(registered[2].body, "recoveryPassword") # {}


\* ----------------------------------------------------------------------- C34
\* the call of searched: its arguments, its result, the searches sent
MismatchedPair(a) == (a.e164 = <<>>) # (a.unidentified_access_key = <<>>)
HeadlessTreeHead(a) == a.last_distinguished_tree_head = <<"StoredTreeHead", <<>>>>
AccountDataUsable(a) ==
    a.account_data \in {<<>>, << <<"StoredAccountData", "complete">> >>}

\* C34 as stated: a call with an E164 and no access key, an access key and no
\* E164, or a stored tree head without a tree head, returns InvalidRequest and
\* sends nothing; a call with both or neither is not rejected for its pair.
C34_InvalidRequestBeforeSending ==
    searched # <<>> =>
        LET a == searched[1]
            res == searched[2]
        IN  /\ (MismatchedPair(a) \/ HeadlessTreeHead(a))
                  => /\ res[1] = "Err" /\ res[2] = "InvalidRequest"
                     /\ searched[3] = 0
            /\ ~MismatchedPair(a)
                  => res \notin {<<"Err", "InvalidRequest", "E164 without unidentified access key">>,
                                 <<"Err", "InvalidRequest", "Unidentified access key without an E164">>}

\* C34, amended: a mismatched pair always gives InvalidRequest. A stored tree
\* head without a tree head always makes the call fail without sending, and
\* gives InvalidRequest when the pair matches and the account data is absent
\* or decodes and converts; when the account data does not, the call fails
\* with the error of that step instead. A request is sent only when no check
\* fails, and a matching pair is never rejected for its pair.
C34_ChecksInOrder ==
    searched # <<>> =>
        LET a == searched[1]
            res == searched[2]
        IN  /\ MismatchedPair(a)
                  => /\ res[1] = "Err" /\ res[2] = "InvalidRequest"
                     /\ searched[3] = 0
            /\ a.e164 = <<>> /\ a.unidentified_access_key # <<>>
                  => res[3] = "Unidentified access key without an E164"
            /\ a.e164 # <<>> /\ a.unidentified_access_key = <<>>
                  => res[3] = "E164 without unidentified access key"
            /\ HeadlessTreeHead(a) => res[1] = "Err" /\ searched[3] = 0
            /\ (HeadlessTreeHead(a) /\ ~MismatchedPair(a) /\ AccountDataUsable(a))
                  => res = <<"Err", "InvalidRequest", "distinguished tree head is missing">>
            /\ (~MismatchedPair(a) /\ ~AccountDataUsable(a))
                  => res \in {<<"Err", "DecodeError">>, <<"Err", "libsignal_keytrans::Error">>}
            /\ ~MismatchedPair(a)
                  => res \notin {<<"Err", "InvalidRequest", "E164 without unidentified access key">>,
                                 <<"Err", "InvalidRequest", "Unidentified access key without an E164">>}
            /\ searched[3] = 1
                  => /\ ~MismatchedPair(a) /\ AccountDataUsable(a)
                     /\ a.last_distinguished_tree_head = <<"StoredTreeHead", <<7>>>>

\* a call with a matching pair, account data that does not decode and a
\* stored tree head without a tree head has failed on the account data
C34_Witness ==
    /\ searched # <<>>
    /\ searched[1].e164 # <<>> /\ searched[1].unidentified_access_key # <<>>
    /\ searched[1].account_data = << <<"garbage">> >>
    /\ HeadlessTreeHead(searched[1])
    /\ searched[2] = <<"Err", "DecodeError">>
    /\ searched[3] = 0


\* ----------------------------------------------------------------------- C35
\* C35: an init_listener that returns without having made the connection
\* Running with its listener (it found Running already, or finish_connect
\* failed abnormally) leaves the cell in the phase it found, and what it
\* found was not the transient marker.
C35_InitListenerAllOrNothing ==
    [][\A k \in ConnCallers :
          (kpc[k] = "init" /\ kpc'[k] = "idle" /\ kres'[k] # "ok")
              => /\ phase' = kseen[k]
                 /\ phase' \in {"WaitingForListener", "Running"}
                 /\ installed' = installed]_vars


\* ----------------------------------------------------------------------- C36
\* C36: callbacks that execute at the same time belong to one listener. A
\* listener that has been given an event replaced a listener (if any) whose
\* run-loop has ended and has no callback executing, and a run-loop that has
\* ended is given no further event: the first callback of a replacement
\* starts after the last callback of the listener it replaced has ended.
C36_ListenersDoNotOverlap ==
    /\ [](/\ \A x, y \in running : x[1] = y[1]
          /\ \A t \in Tasks :
                (log[t] # <<>> /\ src[t] # 0)
                    => /\ pc[src[t]] = "done"
                       /\ CallbacksOf(src[t], running) = {})
    /\ [][\A t \in Tasks :
             pc[t] = "done" => /\ log'[t] = log[t]
                               /\ pc'[t] = "done"
                               /\ CallbacksOf(t, running') \subseteq CallbacksOf(t, running)]_vars

\* a listener that had been given events was replaced while Active, and a
\* callback of the replacement is executing now
C36_Witness ==
    \E t \in Tasks :
        /\ src[t] # 0
        /\ replaced[t] = "Active"
        /\ log[src[t]] # <<>>
        /\ CallbacksOf(t, running) # {}

\* the call that cancelled listener t has returned: clear_listener left the
\* slot Cancelled(t), or the set_listener that replaced t has spawned its task
CancelReturned(t) ==
    /\ cancelDropped[t]
    /\ \/ listener = Cancelled(t)
       \/ \E u \in Tasks : src[u] = t /\ pc[u] # "unspawned"

\* C37: once the clear_listener or set_listener that cancelled a listener has
\* returned, its run-loop pulls nothing more from the stream, so the one event
\* it may still be given is an event it had pulled before the cancellation; and
\* a listener whose run-loop task has exited is given no event.
C37_OnlyAnEventAlreadyPulled ==
    /\ [][\A t \in Tasks :
             (CancelReturned(t) /\ pc[t] # "pulled") => pc'[t] # "pulled"]_vars
    /\ [][\A t \in Tasks :
             pc[t] = "done" => /\ log'[t] = log[t]
                               /\ pc'[t] = "done"]_vars

\* callbacks started on listeners attached before listener t
DispatchedBefore(t) == {i \in 1..Len(dispatched) : dispatched[i][1] < t}

\* C38: a run-loop whose cancel sender is dropped while it still awaits the
\* stream obtains the stream without taking anything from it, and from its
\* select it only ends, returning the stream untouched: its listener is given
\* no event. The listener attached next is given the events that follow those
\* of the listeners before the cancelled one, starting with the first of them.
C38_CancelledBeforeStreamGetsNothing ==
    /\ [][\A t \in Tasks :
             /\ (cancelDropped[t] /\ pc[t] = "awaitStream" /\ pc'[t] # pc[t])
                    => /\ pc'[t] = "select"
                       /\ log'[t] = <<>> /\ cur'[t] = 0
                       /\ UNCHANGED <<stream, dispatched>>
             /\ (cancelDropped[t] /\ pc[t] = "select" /\ log[t] = <<>> /\ cur[t] = 0
                                  /\ pc'[t] # pc[t])
                    => /\ pc'[t] = "done"
                       /\ streamOwner' = <<"result", t>>
                       /\ log'[t] = <<>> /\ cur'[t] = 0
                       /\ UNCHANGED <<stream, dispatched>>]_vars
    /\ [](\A t, u \in Tasks :
              (cancelDropped[t] /\ log[t] = <<>> /\ src[u] = t /\ log[u] # <<>>)
                  => /\ pc[t] = "done"
                     /\ log[u][1] = Cardinality(DispatchedBefore(t)) + 1
                     /\ \A i \in 1..Len(log[u]) : log[u][i] = log[u][1] + i - 1)

\* set_listener(A), set_listener(B), set_listener(C) have returned while A's
\* callback is still executing: B's cancel sender is dropped while B's run-loop
\* awaits the stream, and an event is waiting in the stream
C38_Witness ==
    /\ src[2] = 1 /\ src[3] = 2
    /\ pc[1] = "dispatching" /\ <<1, 1>> \in running
    /\ cancelDropped[2] /\ pc[2] = "awaitStream"
    /\ listener = Active(3) /\ pc[3] = "awaitStream"
    /\ stream # <<>>

\* C39: once set_listener has been called the slot is never Inactive again;
\* every set_listener, whatever state it found, leaves the slot Active with the
\* handle of the task it spawned and a cancel sender that is not dropped;
\* clear_listener leaves Cancelled with the same handle where it found Active
\* and otherwise puts back what it found; and a run-loop that ends without
\* having been cancelled leaves the slot as it is, Active with its own handle.
C39_SlotAfterFirstSetListener ==
    /\ [](nextListener > 0 => listener.tag # "Inactive")
    /\ [][\A c \in Callers :
             /\ (cpc[c] = "set" /\ cpc'[c] # "set")
                    => /\ cpc'[c] = "idle"
                       /\ listener' = Active(clistener[c])
                       /\ ~cancelDropped'[clistener[c]]
                       /\ pc[clistener[c]] = "unspawned"
                       /\ pc'[clistener[c]] = "awaitStream"
             /\ (cpc[c] = "clear" /\ cpc'[c] # "clear")
                    => /\ cpc'[c] = "idle"
                       /\ listener' = IF csaved[c].tag = "Active"
                                          THEN Cancelled(csaved[c].handle)
                                          ELSE csaved[c]
                       /\ listener'.tag \in {"Inactive", "Cancelled"}]_vars
    /\ [][\A t \in Tasks :
             (pc[t] # "done" /\ pc'[t] = "done" /\ ~cancelDropped[t])
                 => /\ listener' = listener
                    /\ \/ listener = Active(t)
                       \/ /\ listener = CurrentlyBeingMutated
                          /\ \E c \in Callers : csaved[c] = Active(t)]_vars

\* a listener set after a clear_listener had left the slot Cancelled: its
\* run-loop has ended without being cancelled and the slot is still Active
\* with its handle
C39_Witness ==
    \E t \in Tasks :
        /\ replaced[t] = "Cancelled"
        /\ listener = Active(t)
        /\ pc[t] = "done"
        /\ ~cancelDropped[t]
====
